---- MODULE Spec2Model ----
(***************************************************************************)
(* Model of the esp32_remote_control core engine (ESP32RemoteControl,      *)
(* src/src/esp32_rc.cpp) with the ESP-NOW backend (ESP32_RC_ESPNOW,        *)
(* src/src/esp32_rc_espnow.cpp).                                           *)
(*                                                                         *)
(* Execution contexts, each with its own program counter:                  *)
(*   app    - the application task calling connect/sendData/recvData       *)
(*   rx     - the radio driver's receive callback (onDataRecvStatic ->     *)
(*            parseRawData -> onDataReceived)                              *)
(*   tm     - the FreeRTOS timer service task running                      *)
(*            heartbeatTimerCallback (sendSysMsg, then checkHeartbeat)     *)
(*   wk     - the background task sendFromQueueLoop                        *)
(* FreeRTOS queue and task-notification calls are atomic; everything       *)
(* between two such calls, and every read or write of an unlocked field,   *)
(* is a separate step, so the contexts interleave as tasks on the two      *)
(* cores of the ESP32 do.                                                  *)
(*                                                                         *)
(* A payload is abstracted to a natural number (0 is the all-zero          *)
(* payload), an address to a natural number (0 is the null MAC).           *)
(***************************************************************************)
EXTENDS Integers, Sequences, FiniteSets, TLC

\* ------------------------------------------------------------------ bounds
\* Queue depths: compile-time overridable macros (default 10), kept small here.
QUEUE_DEPTH_SEND == 2
QUEUE_DEPTH_RECV == 2
\* Number of time steps the clock may advance.
MaxSteps == 9
\* Number of frames the radio delivers in one run of the inbound pipeline, and in
\* one run of the connection machine.
MaxFrames == 3
MaxConnFrames == 3
\* Number of sendData calls the application makes in one run.
MaxSends == 3
\* Number of time steps the clock may advance in a run of the outbound ordering.
MaxOrderSteps == 3

\* ------------------------------------------------------- program constants
HEARTBEAT_INTERVAL_MS == 100
HEARTBEAT_TIMEOUT_MS == 300
RCMSG_TYPE_DATA == 0
RCMSG_TYPE_HEARTBEAT == 3
RC_MESSAGE_MAX_SIZE == 32
RC_PAYLOAD_MAX_SIZE == 25

\* esp32_rc_wifi.cpp
RAW_DISCOVERY_TIMEOUT_MS == 3000
FRAME_INJECT_INTERVAL_MS == 500
CONNECTION_TIMEOUT_MS == 15000

\* calls of ESP32_RC_WIFI::connect in a run
MaxWifiConnects == 2
MaxMetricsAdds == 3
MaxMetricsTicks == 7
MaxDiscoveries == 2
MaxDiscSteps == 2
MaxDiscFrames == 2
MaxTxCalls == 2
MaxTxFrames == 1
MaxParseCalls == 2
MaxPeerFrames == 2
MaxPeerSteps == 7
MaxNrfFrames == 2
MaxNrfSteps == 8
MaxMetricsResets == 1
RC_ADDR_SIZE == 6
RC_MAX_ADDR_SIZE == 16
MAX_SEND_RETRIES == 3
\* RC_NULL_MAC, abstracted to one number
NullMac == 0
BroadcastMac == 255
\* the node's own MAC (WiFi.macAddress), abstracted to one number
MyAddr == 9

\* The clock advances in steps of half a heartbeat interval.
TimeStep == HEARTBEAT_INTERVAL_MS \div 2
MaxTime == MaxSteps * TimeStep

\* MAC addresses of the other nodes on the air: in runs of the pipelines, and in
\* runs of the connection machine.
Peers == {1, 2}
ConnPeers == {1}

\* sizeof(RCMessage_t) with #pragma pack(1): 1 + 6 + 25
SizeofMessage == RC_MESSAGE_MAX_SIZE

\* RCMessage_t msg = {}
ZeroMsg == [type |-> 0, from |-> NullMac, payload |-> 0]

Message(t, a, p) == [type |-> t, from |-> a, payload |-> p]

\* ------------------------------------------------------ FreeRTOS primitives
\* (mutant: xQueueSendToFront in place of xQueueSend)
xQueueSend_Front(q, cap, m) ==
  IF Len(q) < cap THEN [ok |-> TRUE, q |-> <<m>> \o q]
                  ELSE [ok |-> FALSE, q |-> q]

\* (mutant: the queue takes the message although it is full)
xQueueSend_Unbounded(q, cap, m) == [ok |-> TRUE, q |-> Append(q, m)]

\* xQueueSend(q, &m, 0) on a queue of length cap
xQueueSend(q, cap, m) ==
  IF Len(q) < cap THEN [ok |-> TRUE, q |-> Append(q, m)]
                  ELSE [ok |-> FALSE, q |-> q]

\* xQueueOverwrite(q, &m) on a queue of length 1
xQueueOverwrite(q, m) == [ok |-> TRUE, q |-> <<m>>]

\* (mutant: the newest entry is taken instead of the oldest)
xQueueReceive_Newest(q) ==
  IF Len(q) > 0 THEN [ok |-> TRUE, q |-> SubSeq(q, 1, Len(q) - 1), msg |-> q[Len(q)]]
                ELSE [ok |-> FALSE, q |-> q, msg |-> ZeroMsg]

\* xQueueReceive(q, &m, 0)
xQueueReceive(q) ==
  IF Len(q) > 0 THEN [ok |-> TRUE, q |-> Tail(q), msg |-> Head(q)]
                ELSE [ok |-> FALSE, q |-> q, msg |-> ZeroMsg]

\* xTaskNotifyGive: the notification value is only ever tested against 0 and
\* cleared (ulTaskNotifyTake with pdTRUE), so it is kept as "pending or not".
xTaskNotifyGive(n) == TRUE

\* ------------------------------------------------------------ pure helpers
\* (mutant: the mode test dropped, every send overwrites)
SendMsgEnqueue_AlwaysOverwrite(fast, q, m) == xQueueOverwrite(q, m)

\* (mutant: fast mode uses the plain non-blocking send on its one-slot queue)
SendMsgEnqueue_NeverOverwrite(fast, q, m) ==
  xQueueSend(q, IF fast THEN 1 ELSE QUEUE_DEPTH_SEND, m)

\* (mutant: fast mode appends behind what is pending instead of replacing it)
SendMsgEnqueue_Append(fast, q, m) ==
  IF fast THEN [ok |-> TRUE, q |-> Append(q, m)] ELSE xQueueSend(q, QUEUE_DEPTH_SEND, m)

\* (mutant: in fast mode a heartbeat gives way to a pending data message)
SendMsgEnqueue_KeepData(fast, q, m) ==
  IF fast
    THEN IF m.type = RCMSG_TYPE_HEARTBEAT /\ Len(q) > 0 /\ Head(q).type = RCMSG_TYPE_DATA
           THEN [ok |-> TRUE, q |-> q]
           ELSE xQueueOverwrite(q, m)
    ELSE xQueueSend(q, QUEUE_DEPTH_SEND, m)

\* the queue operation of sendMsg
SendMsgEnqueue(fast, q, m) ==
  IF fast THEN xQueueOverwrite(q, m) ELSE xQueueSend(q, QUEUE_DEPTH_SEND, m)

\* (mutant: the timeout taken twice as long)
HeartbeatExpired_Late(t, last) == (t - last) > 2 * HEARTBEAT_TIMEOUT_MS

\* the test of checkHeartbeat: (millis() - last_heartbeat_rx_ms_) > heartbeat_timeout_ms_
HeartbeatExpired(t, last) == (t - last) > HEARTBEAT_TIMEOUT_MS

\* (mutant: no case for heartbeats in the switch)
RoutedToQueue_All(type) == TRUE

\* the switch of onDataReceived: which message types go on to the inbound queue
RoutedToQueue(type) == type # RCMSG_TYPE_HEARTBEAT

\* ESP32_RC_ESPNOW::parseRawData on a frame of f.len bytes (f.null: data == nullptr)
parseRawData(f) ==
  IF f.null THEN ZeroMsg
  ELSE IF f.len # SizeofMessage THEN ZeroMsg
  ELSE IF f.len > RC_MESSAGE_MAX_SIZE THEN ZeroMsg
  ELSE IF f.type # RCMSG_TYPE_DATA /\ f.type # RCMSG_TYPE_HEARTBEAT THEN ZeroMsg
  ELSE Message(f.type, f.from, f.payload)

\* ESP32_RC_ESPNOW::setPeerAddr: the new value of peer_addr_, given the driver's
\* answer to esp_now_add_peer
setPeerAddr(cur, addr, add_ok) ==
  IF addr = NullMac THEN cur
  ELSE IF ~add_ok THEN cur
  ELSE addr

\* The flag Metrics_t reads: `extern bool RC_METRICS_ENABLED`.  No statement of
\* the program writes it (the switch of enableGlobalMetrics is another object,
\* rc_metrics_enabled), so it keeps the one value it has, taken as the documented
\* default, enabled.
RC_METRICS_ENABLED == TRUE

\* (mutant: a failure is not added to the total)
addFailure_NoTotal(m) ==
  IF ~RC_METRICS_ENABLED THEN m ELSE [m EXCEPT !.failed = @ + 1]

\* Metrics_t::reset at time t: the counters go to 0, start_time_ms stays
reset(m, t) == [m EXCEPT !.successful = 0, !.failed = 0, !.total = 0, !.last_reset_ms = t]

\* Metrics_t::addSuccess / addFailure
addSuccess(m) ==
  IF ~RC_METRICS_ENABLED THEN m ELSE [m EXCEPT !.successful = @ + 1, !.total = @ + 1]
addFailure(m) ==
  IF ~RC_METRICS_ENABLED THEN m ELSE [m EXCEPT !.failed = @ + 1, !.total = @ + 1]

\* Metrics_t::getTransactionRate at time t, in transactions per 1000 seconds
\* (the float total * 1000.0f / elapsed_ms, scaled by 1000 and truncated)
getTransactionRate(m, t) ==
  LET elapsed_ms == t - m.start_time_ms
  IN IF elapsed_ms < 1000 THEN 0 ELSE (m.total * 1000 * 1000) \div elapsed_ms

\* ------------------------------------------------------------ data_lock_
\* data_lock_ is a FreeRTOS recursive mutex: the task that holds it (or "none")
\* and its uxRecursiveCallCount.
\* xSemaphoreTakeRecursive by `task`: the holder takes it again at once; a free
\* mutex is taken; both add one to the count.  Held by another task for the
\* whole 5 ms wait, the take fails.
xSemaphoreTakeRecursive(holder, count, task) ==
  IF holder \in {"none", task}
    THEN [ok |-> TRUE, holder |-> task, count |-> count + 1]
    ELSE [ok |-> FALSE, holder |-> holder, count |-> count]

\* xSemaphoreGive on the mutex: it becomes free; the count is not touched
xSemaphoreGive(holder, count) == [holder |-> "none", count |-> count]

\* xSemaphoreGiveRecursive by `task`: only the holder can give; one is taken off
\* the count and the mutex becomes free when the count reaches 0
xSemaphoreGiveRecursive(holder, count, task) ==
  IF holder # task THEN [ok |-> FALSE, holder |-> holder, count |-> count]
  ELSE IF count - 1 = 0 THEN [ok |-> TRUE, holder |-> "none", count |-> 0]
  ELSE [ok |-> TRUE, holder |-> holder, count |-> count - 1]

\* ------------------------------------------------- messages as bytes in memory
\* A float is kept as its 32-bit pattern, written as its upper and lower 16
\* bits; these are its four bytes in memory (the ESP32 is little-endian) and
\* the pattern read back from four bytes.
Float(hi, lo) == [hi |-> hi, lo |-> lo]
FloatBytes(v) == <<v.lo % 256, (v.lo \div 256) % 256, v.hi % 256, (v.hi \div 256) % 256>>
BytesFloat(b) == Float(b[3] + 256 * b[4], b[1] + 256 * b[2])

\* RCMessage_t::setPayload: memcpy(payload, &data, sizeof(RCPayload_t)), the packed
\* struct RCPayload_t as its 25 bytes
PayloadBytes(P) ==
  <<P.id1, P.id2, P.id3, P.id4>> \o FloatBytes(P.value1) \o FloatBytes(P.value2)
    \o FloatBytes(P.value3) \o FloatBytes(P.value4) \o FloatBytes(P.value5) \o <<P.flags>>

\* recvData: memcpy(&payload, msg.getPayload(), sizeof(RCPayload_t))
BytesPayload(b) ==
  [id1 |-> b[1], id2 |-> b[2], id3 |-> b[3], id4 |-> b[4],
   value1 |-> BytesFloat(SubSeq(b, 5, 8)), value2 |-> BytesFloat(SubSeq(b, 9, 12)),
   value3 |-> BytesFloat(SubSeq(b, 13, 16)), value4 |-> BytesFloat(SubSeq(b, 17, 20)),
   value5 |-> BytesFloat(SubSeq(b, 21, 24)), flags |-> b[25]]

\* an address as its RC_ADDR_SIZE bytes
AddrBytes(a) == [i \in 1..RC_ADDR_SIZE |-> a]

\* RCMessage_t msg = {} with its fields as bytes
ZeroMsgBytes == [type |-> 0, from |-> AddrBytes(NullMac),
                 payload |-> [i \in 1..RC_PAYLOAD_MAX_SIZE |-> 0]]

\* sendData: the message built from a payload
sendDataMessage(P) ==
  [type |-> RCMSG_TYPE_DATA, from |-> AddrBytes(MyAddr), payload |-> PayloadBytes(P)]

\* lowLevelSend: reinterpret_cast<const uint8_t*>(&msg), sizeof(RCMessage_t): the
\* packed struct as its 32 bytes
MessageBytes(m) == <<m.type>> \o m.from \o m.payload

\* (mutant: the copy takes sizeof(RCPayload_t) bytes instead of sizeof(RCMessage_t))
parseRawDataBytes_ShortCopy(data) ==
  IF Len(data) # SizeofMessage THEN ZeroMsgBytes
  ELSE IF Len(data) > RC_MESSAGE_MAX_SIZE THEN ZeroMsgBytes
  ELSE LET img == SubSeq(data, 1, RC_PAYLOAD_MAX_SIZE)
                    \o [i \in 1..(SizeofMessage - RC_PAYLOAD_MAX_SIZE) |-> 0]
           m == [type |-> img[1], from |-> SubSeq(img, 2, 1 + RC_ADDR_SIZE),
                 payload |-> SubSeq(img, 2 + RC_ADDR_SIZE, SizeofMessage)]
       IN IF m.type # RCMSG_TYPE_DATA /\ m.type # RCMSG_TYPE_HEARTBEAT THEN ZeroMsgBytes
          ELSE m

\* ESP32_RC_ESPNOW::parseRawData on the bytes of a frame (data is not null)
parseRawDataBytes(data) ==
  IF Len(data) # SizeofMessage THEN ZeroMsgBytes
  ELSE IF Len(data) > RC_MESSAGE_MAX_SIZE THEN ZeroMsgBytes
  ELSE LET m == [type |-> data[1], from |-> SubSeq(data, 2, 1 + RC_ADDR_SIZE),
                 payload |-> SubSeq(data, 2 + RC_ADDR_SIZE, SizeofMessage)]
       IN IF m.type # RCMSG_TYPE_DATA /\ m.type # RCMSG_TYPE_HEARTBEAT THEN ZeroMsgBytes
          ELSE m

\* RCMSG_TYPE_IP_DISCOVERY, the third type the WiFi backend accepts.  Its
\* enumerator is not in the headers at hand; it is a type byte other than DATA
\* and HEARTBEAT.
RCMSG_TYPE_IP_DISCOVERY ==
  CHOOSE t \in 1..255 : t \notin {RCMSG_TYPE_DATA, RCMSG_TYPE_HEARTBEAT}

\* (mutant: no test of the message type)
KnownTypes_Any(backend) == 0..255

\* the message types parseRawData of a backend lets through
KnownTypes(backend) ==
  IF backend = "WIFI"
    THEN {RCMSG_TYPE_DATA, RCMSG_TYPE_HEARTBEAT, RCMSG_TYPE_IP_DISCOVERY}
    ELSE {RCMSG_TYPE_DATA, RCMSG_TYPE_HEARTBEAT}

\* memcpy(&msg, data, sizeof(RCMessage_t)): the packed struct read from 32 bytes
BytesMessage(data) ==
  [type |-> data[1], from |-> SubSeq(data, 2, 1 + RC_ADDR_SIZE),
   payload |-> SubSeq(data, 2 + RC_ADDR_SIZE, SizeofMessage)]

\* parseRawData(data, len) of a backend; null: data == nullptr, else data holds
\* len bytes
parseRawDataOf(backend, null, data, len) ==
  IF backend = "ESPNOW"
    THEN IF null THEN ZeroMsgBytes ELSE parseRawDataBytes(data)
  ELSE IF null THEN ZeroMsgBytes
  ELSE IF len # SizeofMessage THEN ZeroMsgBytes
  ELSE IF BytesMessage(data).type \in KnownTypes(backend) THEN BytesMessage(data)
  ELSE ZeroMsgBytes

\* Payloads tried in a round trip: boundary bytes in the id and flag fields, and
\* in value1 the patterns of 0.0f, 1.0f (3F800000), a NaN with a payload bit
\* (7FC00001) and all ones; value2 has four different bytes (01020304), value3
\* is -1.0f (BF800000), value4 the smallest normal and value5 the smallest
\* denormal number.
TripPayloads ==
  {[id1 |-> a, id2 |-> 1, id3 |-> 2, id4 |-> 3, value1 |-> v,
    value2 |-> Float(258, 772), value3 |-> Float(49024, 0), value4 |-> Float(128, 0),
    value5 |-> Float(0, 1), flags |-> f] :
     a \in {0, 255},
     v \in {Float(0, 0), Float(16256, 0), Float(32704, 1), Float(65535, 65535)},
     f \in {0, 128, 255}}

\* ---------------------------------------------------------------- the state
VARIABLES
  fast_mode,             \* fast_mode_
  conn_state,            \* conn_state_
  peer_addr,             \* peer_addr_
  last_heartbeat_rx_ms,  \* last_heartbeat_rx_ms_
  timer_active,          \* xTimerIsTimerActive(timer_heartbeat_)
  timer_due,             \* expiry time of timer_heartbeat_
  now,                   \* millis()
  queue_send,            \* queue_send_
  queue_recv,            \* queue_recv_
  notified,              \* pending notification of the send task
  lock_holder,           \* holder of data_lock_
  recv_metrics,          \* recv_metrics_
  send_metrics,          \* send_metrics_
  rx_pc, rx_frame, rx_msg, rx_ok,   \* the receive callback
  tm_pc,                 \* the timer callback
  wk_pc, wk_msg,         \* the send task
  app_pc, app_msg, app_ret,         \* the application task
  frames_seen, sends_made,          \* frames delivered and sendData calls made so far
  sent_log,              \* DATA messages handed to lowLevelSend, in order
  cb_count, cb_last,     \* calls of recv_callback_ and the message of the last one
  got_log,               \* messages handed out by recvMsg and recvData, in order
  obs,                   \* observations about the run (see ObsInit)
  trip,                  \* a payload on its way from this node to its peer (see TripInit)
  wifi,                  \* the WiFi backend's discovery state (see WifiInit)
  lock_count,            \* uxRecursiveCallCount of data_lock_
  mx,                    \* the global metrics switch and the last metrics call (see MxInit)
  bc,                    \* an RCAddress_t object (see BcInit)
  disc,                  \* discovery_result_, discovery_callback_ and the caller of
                         \* onPeerDiscovered (see DiscInit)
  tx,                    \* a lowLevelSend call of the ESP-NOW or NRF24 backend (see TxInit)
  raw,                   \* the last parseRawData call and what it returned (see RawInit)
  nrf                    \* handshake_completed_ and pipeType_ of the NRF24 backend (see NrfInit)

vars == <<fast_mode, conn_state, peer_addr, last_heartbeat_rx_ms, timer_active,
          timer_due, now, queue_send, queue_recv, notified, lock_holder,
          recv_metrics, send_metrics, rx_pc, rx_frame, rx_msg, rx_ok, tm_pc,
          wk_pc, wk_msg, app_pc, app_msg, app_ret, frames_seen, sends_made,
          sent_log, cb_count, cb_last, got_log, obs, trip, wifi, lock_count, mx, bc,
          disc, tx, raw, nrf>>

\* Observations kept beside the program state (none of them is read by an action's
\* guard or by the program's own variables):
\*   rx_call_ms     time of the most recent onDataReceived call, -1 before the first
\*   rx_connected   the call in progress was made after connect()
\*   rx_returned    an onDataReceived call made after connect() has returned and
\*                  no timer tick that began after that return has ended yet
\*   tick_armed     the running tick began after such a return
\*   hb_received    a HEARTBEAT message has been passed to onDataReceived
\*   calls_at_deq   number of sendData calls made when the send task last dequeued
\*   data_in        payloads of the non-heartbeat messages passed to onDataReceived,
\*                  in order
\*   app_recv       recvMsg or recvData has been called
\*   interleaved    a receive call was made while onDataReceived was running, or
\*                  onDataReceived was called after a receive call
\*   enq            the messages whose sendMsg call succeeded, in the order of their
\*                  enqueue
\*   sent_all       the messages handed to lowLevelSend, in order
\*   reconnect      the last connect() call found the state Connecting and the
\*                  timer active while no callback was running, and since then
\*                  the clock has not moved and no callback has started
ObsInit == [rx_call_ms |-> -1, rx_connected |-> FALSE, rx_returned |-> FALSE,
            tick_armed |-> FALSE, hb_received |-> FALSE, calls_at_deq |-> 0,
            data_in |-> <<>>, app_recv |-> FALSE, interleaved |-> FALSE,
            enq |-> <<>>, sent_all |-> <<>>, reconnect |-> FALSE]

NoFrame == [null |-> FALSE, len |-> 0, type |-> 0, from |-> NullMac, payload |-> 0, mac |-> NullMac]

\* Metrics_t(): the counters are 0, start_time_ms and last_reset_ms are millis() at
\* construction
MetricsInit == [successful |-> 0, failed |-> 0, total |-> 0, start_time_ms |-> 0,
                last_reset_ms |-> 0]

\* The data path of one payload between two nodes that run this code:
\*   pc      how far the payload has come
\*   P       the RCPayload_t passed to sendData
\*   sq      queue_send_ of the sender
\*   wire    the bytes handed to the radio by the sender's lowLevelSend
\*   pq      queue_recv_ of the peer
\*   out     the RCPayload_t the peer's recvData wrote, ret its return value
TripInit == [pc |-> "start", P |-> BytesPayload(ZeroMsgBytes.payload), sq |-> <<>>,
             wire |-> <<>>, pq |-> <<>>, out |-> BytesPayload(ZeroMsgBytes.payload),
             ret |-> FALSE]

\* ESP32_RC_WIFI: its members and the position of the caller of connect()
\*   pc      "idle", or the place inside connect(): "test" (loop condition),
\*           "body" (the switch), "delay" (delay(50)), "exit" (after the loop)
\*   sniff   promiscuous mode is on, so sniffCallback can run
\*   connects  calls of connect() so far
WifiInit == [pc |-> "idle", discovery_phase |-> "PHASE_RAW_DISCOVERY",
             peer_discovered |-> FALSE, peer_mac |-> NullMac, discovery_start_ms |-> 0,
             last_frame_inject_ms |-> 0, connection_start |-> 0, sniff |-> FALSE,
             connects |-> 0]

\* The metrics switch and what was last done to the metrics:
\*   rc_metrics_enabled   the global written by enableGlobalMetrics
\*   add_ms    time of the last addSuccess or addFailure call, -1 before the first
\*   adds      number of such calls so far
\*   send      the last lowLevelSend: its backend, the message type and whether
\*             the transmission succeeded in the end ("none" before the first)
NoSend == [backend |-> "none", type |-> 0, ok |-> TRUE]
MxInit == [rc_metrics_enabled |-> TRUE, add_ms |-> -1, adds |-> 0, send |-> NoSend,
           resets |-> 0]

\* RCAddress_t(): size 0 and all RC_MAX_ADDR_SIZE bytes of data 0; `made` names
\* the backend whose createBroadcastAddress last wrote the object ("none" after
\* setAddress and clear)
BcInit == [data |-> [i \in 1..RC_MAX_ADDR_SIZE |-> 0], size |-> 0, made |-> "none"]

\* Peer discovery: the members discovery_result_ and discovery_callback_, and the
\* task that calls onPeerDiscovered (a task other than the one of the receive
\* callback):
\*   pc        "idle", or the place inside onPeerDiscovered: "lock" (the take),
\*             "record" (the locked block), "callback" (after the give)
\*   addr      the argument of the call in progress
\*   result    discovery_result_
\*   callback  a discovery callback is registered
\*   calls     calls of onPeerDiscovered so far
\*   taken     the take of the call in progress succeeded
\*   cb_calls  invocations of the callback by the call in progress
\*   cb_holder the holder of data_lock_ when the callback was last invoked
DiscInit == [pc |-> "idle", addr |-> NullMac,
             result |-> [discovered |-> FALSE, peer_addr |-> NullMac],
             callback |-> FALSE, calls |-> 0, taken |-> FALSE, cb_calls |-> 0,
             cb_holder |-> "none"]

\* A call of lowLevelSend of the ESP-NOW or the NRF24 backend:
\*   pc        "idle", or the place inside the call: "attempt" (the body of the
\*             retry loop), "metrics" (after the loop)
\*   backend, type   the backend and the type of the message
\*   retry     the loop variable
\*   ok        the last attempt succeeded (sendResult == ESP_OK, sendSuccess)
\*   attempts  transmit attempts of this call so far
\*   connected the connection state was CONNECTED when the target was chosen
\*   targets   the addresses the attempts of this call were made to (ESP-NOW)
\*   calls     calls so far
TxInit == [pc |-> "idle", backend |-> "ESPNOW", type |-> RCMSG_TYPE_DATA, retry |-> 0,
           ok |-> FALSE, attempts |-> 0, connected |-> FALSE, targets |-> <<>>, calls |-> 0]

\* The last call of parseRawData: the backend, the arguments (null: the pointer
\* is null; else data holds len bytes) and the message returned; calls counts
\* the calls
\* ESP32_RC_NRF24 after its constructor: handshake_completed_ = false, and init()
\* ends with switchToBroadcastPipe(); pipeType is 0 for the broadcast pipe and 1
\* for the peer pipe
NrfInit == [handshake_completed |-> FALSE, pipeType |-> 0]

RawInit == [backend |-> "ESPNOW", null |-> TRUE, data |-> <<>>, len |-> 0,
            out |-> ZeroMsgBytes, calls |-> 0]

\* The state after the constructor ESP32_RC_ESPNOW(fast_mode) has returned.
Init ==
  /\ fast_mode \in BOOLEAN
  /\ conn_state = "DISCONNECTED"
  /\ peer_addr = NullMac
  /\ last_heartbeat_rx_ms = 0
  /\ timer_active = FALSE
  /\ timer_due = 0
  /\ now = 0
  /\ queue_send = <<>>
  /\ queue_recv = <<>>
  /\ notified = TRUE
  /\ lock_holder = "none"
  /\ recv_metrics = MetricsInit
  /\ send_metrics = MetricsInit
  /\ rx_pc = "idle" /\ rx_frame = NoFrame
  /\ rx_msg = ZeroMsg /\ rx_ok = FALSE
  /\ tm_pc = "idle"
  /\ wk_pc = "wait" /\ wk_msg = ZeroMsg
  /\ app_pc = "idle" /\ app_msg = ZeroMsg /\ app_ret = FALSE
  /\ frames_seen = 0
  /\ sends_made = 0
  /\ sent_log = <<>>
  /\ cb_count = 0 /\ cb_last = ZeroMsg
  /\ got_log = <<>>
  /\ obs = ObsInit
  /\ trip = TripInit
  /\ wifi = WifiInit
  /\ lock_count = 0
  /\ mx = MxInit
  /\ bc = BcInit
  /\ disc = DiscInit
  /\ tx = TxInit
  /\ raw = RawInit
  /\ nrf = NrfInit

\* groups of variables, for UNCHANGED
connVars == <<conn_state, peer_addr, last_heartbeat_rx_ms>>
timerVars == <<timer_active, timer_due>>
rxVars == <<rx_pc, rx_frame, rx_msg, rx_ok, frames_seen>>
wkVars == <<wk_pc, wk_msg>>
appVars == <<app_pc, app_msg, app_ret, sends_made>>
logVars == <<sent_log, cb_count, cb_last, got_log>>
metricVars == <<recv_metrics, send_metrics>>
lockVars == <<lock_holder, lock_count>>

\* ------------------------------------------------------------- application
\* what a connect() call does to the observations
ObsConnect == [obs EXCEPT !.rx_returned = FALSE, !.tick_armed = FALSE, !.rx_connected = FALSE,
                          !.reconnect = (conn_state = "CONNECTING" /\ timer_active
                                           /\ rx_pc = "idle" /\ tm_pc = "idle")]

\* (mutant: xTimerStart without the test of xTimerIsTimerActive, which restarts
\* the period of a running timer)
Connect_Restart ==
  /\ app_pc = "idle"
  /\ timer_active' = TRUE /\ timer_due' = now + HEARTBEAT_INTERVAL_MS
  /\ conn_state' = "CONNECTING"
  /\ obs' = ObsConnect
  /\ UNCHANGED <<fast_mode, trip, wifi, mx, bc, disc, tx, raw, nrf, peer_addr, last_heartbeat_rx_ms, now, queue_send, queue_recv,
                 notified, lockVars, metricVars, rxVars, tm_pc, wkVars, appVars, logVars>>

\* ESP32RemoteControl::connect()
Connect ==
  /\ app_pc = "idle"
  /\ IF ~timer_active
       THEN timer_active' = TRUE /\ timer_due' = now + HEARTBEAT_INTERVAL_MS
       ELSE UNCHANGED timerVars
  /\ conn_state' = "CONNECTING"
  /\ obs' = ObsConnect
  /\ UNCHANGED <<fast_mode, trip, wifi, mx, bc, disc, tx, raw, nrf, peer_addr, last_heartbeat_rx_ms, now, queue_send, queue_recv,
                 notified, lockVars, metricVars, rxVars, tm_pc, wkVars, appVars, logVars>>

\* The clock: time passes between handlers (a handler runs for microseconds, a step
\* of the clock is tens of milliseconds), and a due timer tick starts on time.
AdvanceTimeUpTo(steps) ==
  /\ now + TimeStep <= steps * TimeStep
  /\ rx_pc = "idle" /\ tm_pc = "idle" /\ app_pc = "idle"
  /\ ~(timer_active /\ now >= timer_due)
  /\ now' = now + TimeStep
  /\ obs' = [obs EXCEPT !.reconnect = FALSE]
  /\ UNCHANGED <<fast_mode, trip, wifi, mx, bc, disc, tx, raw, nrf, connVars, timerVars, queue_send, queue_recv, notified,
                 lockVars, metricVars, rxVars, tm_pc, wkVars, appVars, logVars>>

AdvanceTime == AdvanceTimeUpTo(MaxSteps)

\* (mutant: the payload of a system message is not zeroed)
sendSysMsg_Stamped(msgType) == Message(msgType, MyAddr, 1)

\* ESP32RemoteControl::sendSysMsg: the message it passes to sendMsg
sendSysMsg(msgType) == Message(msgType, MyAddr, 0)

\* ------------------------------------------------------------ timer callback
\* heartbeatTimerCallback, first half: sendSysMsg(RCMSG_TYPE_HEARTBEAT) up to the
\* queue operation of sendMsg
TimerFire ==
  /\ timer_active /\ tm_pc = "idle" /\ now >= timer_due
  /\ timer_due' = timer_due + HEARTBEAT_INTERVAL_MS
  /\ LET r == SendMsgEnqueue(fast_mode, queue_send, sendSysMsg(RCMSG_TYPE_HEARTBEAT))
     IN /\ queue_send' = r.q
        /\ tm_pc' = IF r.ok THEN "notify" ELSE "check"
        /\ obs' = [obs EXCEPT !.tick_armed = obs.rx_returned, !.reconnect = FALSE,
                              !.enq = IF r.ok THEN Append(@, sendSysMsg(RCMSG_TYPE_HEARTBEAT))
                                              ELSE @]
  /\ UNCHANGED <<fast_mode, trip, wifi, mx, bc, disc, tx, raw, nrf, connVars, timer_active, now, queue_recv, notified, lockVars,
                 metricVars, rxVars, wkVars, appVars, logVars>>

\* sendMsg: xTaskNotifyGive(sendFromQueueTaskHandle_)
TimerNotify ==
  /\ tm_pc = "notify"
  /\ notified' = xTaskNotifyGive(notified)
  /\ tm_pc' = "check"
  /\ UNCHANGED <<fast_mode, trip, wifi, mx, bc, disc, tx, raw, nrf, connVars, timerVars, now, queue_send, queue_recv, lockVars,
                 metricVars, rxVars, wkVars, appVars, logVars, obs>>

\* what the end of a tick does to the observations
ObsTickEnd == [obs EXCEPT !.tick_armed = FALSE,
                          !.rx_returned = IF obs.tick_armed THEN FALSE ELSE @]

\* checkHeartbeat, the outer test (reads millis() and last_heartbeat_rx_ms_)
TimerCheck ==
  /\ tm_pc = "check"
  /\ IF HeartbeatExpired(now, last_heartbeat_rx_ms)
       THEN tm_pc' = "expired" /\ obs' = obs
       ELSE tm_pc' = "idle" /\ obs' = ObsTickEnd
  /\ UNCHANGED <<fast_mode, trip, wifi, mx, bc, disc, tx, raw, nrf, connVars, timerVars, now, queue_send, queue_recv, notified,
                 lockVars, metricVars, rxVars, wkVars, appVars, logVars>>

\* (mutant: the inner test of the state is missing)
TimerExpired_AnyState ==
  /\ tm_pc = "expired"
  /\ conn_state' = "DISCONNECTED"
  /\ tm_pc' = "idle"
  /\ obs' = ObsTickEnd
  /\ UNCHANGED <<fast_mode, trip, wifi, mx, bc, disc, tx, raw, nrf, peer_addr, last_heartbeat_rx_ms, timerVars, now, queue_send,
                 queue_recv, notified, lockVars, metricVars, rxVars, wkVars, appVars,
                 logVars>>

\* checkHeartbeat, the inner test and the write of conn_state_
TimerExpired ==
  /\ tm_pc = "expired"
  /\ conn_state' = IF conn_state = "CONNECTED" THEN "DISCONNECTED" ELSE conn_state
  /\ tm_pc' = "idle"
  /\ obs' = ObsTickEnd
  /\ UNCHANGED <<fast_mode, trip, wifi, mx, bc, disc, tx, raw, nrf, peer_addr, last_heartbeat_rx_ms, timerVars, now, queue_send,
                 queue_recv, notified, lockVars, metricVars, rxVars, wkVars, appVars,
                 logVars>>

\* ---------------------------------------------------------- receive callback
\* Frames the radio can deliver as its n-th frame: (null, len, type) as the driver
\* reports them, the sender's MAC, and a payload that tells the frames apart.
Frame(n, l, t, a) == [null |-> FALSE, len |-> l, type |-> t, from |-> a, payload |-> n, mac |-> a]

\* well-formed frames: 32 bytes, type DATA or HEARTBEAT
ValidFrames(n, senders) ==
  {Frame(n, SizeofMessage, t, a) : t \in {RCMSG_TYPE_DATA, RCMSG_TYPE_HEARTBEAT}, a \in senders}

\* malformed frames: one byte short, one byte long, or of an unknown type
MalformedFrames(n, senders) ==
  {Frame(n, l, RCMSG_TYPE_DATA, a) : l \in {SizeofMessage - 1, SizeofMessage + 1}, a \in senders}
    \cup {Frame(n, SizeofMessage, 1, a) : a \in senders}

\* what parseRawData checks: exact length and a known type
WellFormed(f) ==
  /\ ~f.null
  /\ f.len = SizeofMessage
  /\ f.type \in {RCMSG_TYPE_DATA, RCMSG_TYPE_HEARTBEAT}

\* ESP32_RC_ESPNOW::onDataRecvStatic: parse the frame, overwrite from_addr with the
\* sender MAC, and enter onDataReceived
RadioDeliver(f) ==
  /\ rx_pc = "idle"
  /\ frames_seen' = frames_seen + 1
  /\ rx_frame' = f
  /\ rx_msg' = [parseRawData(f) EXCEPT !.from = f.mac]
  /\ rx_ok' = FALSE
  /\ rx_pc' = "lock"
  /\ obs' = [obs EXCEPT !.rx_call_ms = now, !.rx_connected = timer_active,
                        !.hb_received = @ \/ (parseRawData(f).type = RCMSG_TYPE_HEARTBEAT),
                        !.data_in = IF parseRawData(f).type # RCMSG_TYPE_HEARTBEAT
                                      THEN Append(@, parseRawData(f).payload) ELSE @,
                        !.interleaved = @ \/ obs.app_recv, !.reconnect = FALSE]
  /\ UNCHANGED <<fast_mode, trip, wifi, mx, bc, disc, tx, raw, nrf, connVars, timerVars, now, queue_send, queue_recv, notified,
                 lockVars, metricVars, tm_pc, wkVars, appVars, logVars>>

\* the radio delivers a well-formed frame from one of senders, at most max frames
\* in a run
DeliverValid(max, senders) ==
  frames_seen < max /\ \E f \in ValidFrames(frames_seen + 1, senders) : RadioDeliver(f)

\* the radio delivers a malformed frame
DeliverMalformed(max, senders) ==
  frames_seen < max /\ \E f \in MalformedFrames(frames_seen + 1, senders) : RadioDeliver(f)

\* onDataReceived: xSemaphoreTakeRecursive(data_lock_, 5 ms); the take fails only
\* when another context holds the lock for the whole wait
RxLock ==
  /\ rx_pc = "lock"
  /\ LET r == xSemaphoreTakeRecursive(lock_holder, lock_count, "rx")
     IN /\ lock_holder' = r.holder
        /\ lock_count' = r.count
        /\ rx_pc' = IF r.ok THEN "state" ELSE "route"
  /\ UNCHANGED <<fast_mode, trip, wifi, mx, bc, disc, tx, raw, nrf, connVars, timerVars, now, queue_send, queue_recv, notified,
                 metricVars, rx_frame, rx_msg, rx_ok, frames_seen, tm_pc, wkVars, appVars,
                 logVars, obs>>

\* (mutant: the sender is adopted whatever the connection state)
RxState_AlwaysAdopt ==
  /\ rx_pc = "state"
  /\ \E add_ok \in BOOLEAN : peer_addr' = setPeerAddr(peer_addr, rx_msg.from, add_ok)
  /\ conn_state' = "CONNECTED"
  /\ rx_pc' = "stamp"
  /\ UNCHANGED <<fast_mode, trip, wifi, mx, bc, disc, tx, raw, nrf, last_heartbeat_rx_ms, timerVars, now, queue_send, queue_recv,
                 notified, lockVars, metricVars, rx_frame, rx_msg, rx_ok, frames_seen,
                 tm_pc, wkVars, appVars, logVars, obs>>

\* onDataReceived: if not connected, adopt the sender as peer and become CONNECTED
RxState ==
  /\ rx_pc = "state"
  /\ IF conn_state # "CONNECTED"
       THEN /\ \E add_ok \in BOOLEAN : peer_addr' = setPeerAddr(peer_addr, rx_msg.from, add_ok)
            /\ conn_state' = "CONNECTED"
       ELSE UNCHANGED <<peer_addr, conn_state>>
  /\ rx_pc' = "stamp"
  /\ UNCHANGED <<fast_mode, trip, wifi, mx, bc, disc, tx, raw, nrf, last_heartbeat_rx_ms, timerVars, now, queue_send, queue_recv,
                 notified, lockVars, metricVars, rx_frame, rx_msg, rx_ok, frames_seen,
                 tm_pc, wkVars, appVars, logVars, obs>>

\* onDataReceived: last_heartbeat_rx_ms_ = millis(); xSemaphoreGive(data_lock_)
RxStamp ==
  /\ rx_pc = "stamp"
  /\ last_heartbeat_rx_ms' = now
  /\ lock_holder' = xSemaphoreGive(lock_holder, lock_count).holder
  /\ lock_count' = xSemaphoreGive(lock_holder, lock_count).count
  /\ rx_pc' = "route"
  /\ UNCHANGED <<fast_mode, trip, wifi, mx, bc, disc, tx, raw, nrf, conn_state, peer_addr, timerVars, now, queue_send, queue_recv,
                 notified, metricVars, rx_frame, rx_msg, rx_ok, frames_seen, tm_pc, wkVars,
                 appVars, logVars, obs>>

\* what the return of onDataReceived does to the observations
ObsRxReturn == [obs EXCEPT !.rx_returned = @ \/ obs.rx_connected, !.rx_connected = FALSE]

\* onDataReceived: the switch on msg.type and the first queue operation
RxRoute ==
  /\ rx_pc = "route"
  /\ IF ~RoutedToQueue(rx_msg.type)
       THEN /\ rx_pc' = "idle"
            /\ obs' = ObsRxReturn
            /\ UNCHANGED <<queue_recv, rx_ok>>
       ELSE LET r == IF fast_mode THEN xQueueOverwrite(queue_recv, rx_msg)
                                  ELSE xQueueSend(queue_recv, QUEUE_DEPTH_RECV, rx_msg)
            IN /\ queue_recv' = r.q
               /\ rx_ok' = r.ok
               /\ rx_pc' = IF r.ok \/ fast_mode THEN "report" ELSE "evict"
               /\ obs' = obs
  /\ UNCHANGED <<fast_mode, trip, wifi, mx, bc, disc, tx, raw, nrf, connVars, timerVars, now, queue_send, notified, lockVars,
                 metricVars, rx_frame, rx_msg, frames_seen, tm_pc, wkVars, appVars, logVars>>

\* onDataReceived, queue full: xQueueReceive(queue_recv_, &dropMsg, 0)
RxEvict ==
  /\ rx_pc = "evict"
  /\ LET r == xQueueReceive(queue_recv)
     IN /\ queue_recv' = r.q
        /\ rx_pc' = IF r.ok THEN "retry" ELSE "report"
  /\ UNCHANGED <<fast_mode, trip, wifi, mx, bc, disc, tx, raw, nrf, connVars, timerVars, now, queue_send, notified, lockVars,
                 metricVars, rx_frame, rx_msg, rx_ok, frames_seen, tm_pc, wkVars, appVars,
                 logVars, obs>>

\* onDataReceived, after the eviction: the second xQueueSend
RxRetry ==
  /\ rx_pc = "retry"
  /\ LET r == xQueueSend(queue_recv, QUEUE_DEPTH_RECV, rx_msg)
     IN /\ queue_recv' = r.q
        /\ rx_ok' = r.ok
  /\ rx_pc' = "report"
  /\ UNCHANGED <<fast_mode, trip, wifi, mx, bc, disc, tx, raw, nrf, connVars, timerVars, now, queue_send, notified, lockVars,
                 metricVars, rx_frame, rx_msg, frames_seen, tm_pc, wkVars, appVars, logVars,
                 obs>>

\* the receive metrics after the tail of onDataReceived: in reliable mode a failure
\* is counted where it is logged and again in the final else
ReportMetrics(m, fast, ok) ==
  IF ok THEN addSuccess(m)
  ELSE IF fast THEN addFailure(m)
  ELSE addFailure(addFailure(m))

\* onDataReceived: metrics and the receive callback, then return
RxReport ==
  /\ rx_pc = "report"
  /\ recv_metrics' = ReportMetrics(recv_metrics, fast_mode, rx_ok)
  /\ cb_count' = IF rx_ok THEN cb_count + 1 ELSE cb_count
  /\ cb_last' = IF rx_ok THEN rx_msg ELSE cb_last
  /\ rx_pc' = "idle"
  /\ obs' = ObsRxReturn
  /\ UNCHANGED <<fast_mode, trip, wifi, mx, bc, disc, tx, raw, nrf, connVars, timerVars, now, queue_send, queue_recv, notified,
                 lockVars, send_metrics, rx_frame, rx_msg, rx_ok, frames_seen, tm_pc,
                 wkVars, appVars, sent_log, got_log>>

\* ------------------------------------------------------- application, receive
\* what a receive call does to the observations
ObsAppRecv == [obs EXCEPT !.app_recv = TRUE, !.interleaved = @ \/ rx_pc # "idle"]

\* ESP32RemoteControl::recvMsg: xQueueReceive with a 5 ms wait; the call returns
\* false when nothing arrives within the wait
AppRecvMsg ==
  /\ app_pc = "idle"
  /\ LET r == xQueueReceive(queue_recv)
     IN /\ queue_recv' = r.q
        /\ app_ret' = r.ok
        /\ app_msg' = r.msg
        /\ got_log' = IF r.ok THEN Append(got_log, r.msg) ELSE got_log
  /\ obs' = ObsAppRecv
  /\ UNCHANGED <<fast_mode, trip, wifi, mx, bc, disc, tx, raw, nrf, connVars, timerVars, now, queue_send, notified, lockVars,
                 metricVars, rxVars, tm_pc, wkVars, app_pc, sends_made, sent_log, cb_count, cb_last>>

\* (mutant: the result of recvMsg is not tested)
AppRecvData_AnyResult ==
  /\ app_pc = "idle"
  /\ LET r == xQueueReceive(queue_recv)
         ok == r.msg.type = RCMSG_TYPE_DATA
     IN /\ queue_recv' = r.q
        /\ app_ret' = ok
        /\ app_msg' = r.msg
        /\ got_log' = IF ok THEN Append(got_log, r.msg) ELSE got_log
  /\ obs' = ObsAppRecv
  /\ UNCHANGED <<fast_mode, trip, wifi, mx, bc, disc, tx, raw, nrf, connVars, timerVars, now, queue_send, notified, lockVars,
                 metricVars, rxVars, tm_pc, wkVars, app_pc, sends_made, sent_log, cb_count, cb_last>>

\* ESP32RemoteControl::recvData: recvMsg, then only a DATA message is handed out
AppRecvData ==
  /\ app_pc = "idle"
  /\ LET r == xQueueReceive(queue_recv)
         ok == r.ok /\ r.msg.type = RCMSG_TYPE_DATA
     IN /\ queue_recv' = r.q
        /\ app_ret' = ok
        /\ app_msg' = r.msg
        /\ got_log' = IF ok THEN Append(got_log, r.msg) ELSE got_log
  /\ obs' = ObsAppRecv
  /\ UNCHANGED <<fast_mode, trip, wifi, mx, bc, disc, tx, raw, nrf, connVars, timerVars, now, queue_send, notified, lockVars,
                 metricVars, rxVars, tm_pc, wkVars, app_pc, sends_made, sent_log, cb_count, cb_last>>

\* ---------------------------------------------------------- application, send
\* ESP32RemoteControl::sendData: build the DATA message and run sendMsg up to its
\* queue operation; the k-th call carries payload k
AppSendData ==
  /\ app_pc = "idle" /\ sends_made < MaxSends
  /\ sends_made' = sends_made + 1
  /\ LET m == Message(RCMSG_TYPE_DATA, MyAddr, sends_made + 1)
         r == SendMsgEnqueue(fast_mode, queue_send, m)
     IN /\ app_msg' = m
        /\ queue_send' = r.q
        /\ app_ret' = r.ok
        /\ app_pc' = IF r.ok THEN "notify" ELSE "idle"
        /\ obs' = [obs EXCEPT !.enq = IF r.ok THEN Append(@, m) ELSE @]
  /\ UNCHANGED <<fast_mode, trip, wifi, mx, bc, disc, tx, raw, nrf, connVars, timerVars, now, queue_recv, notified, lockVars,
                 metricVars, rxVars, tm_pc, wkVars, logVars>>

\* sendMsg: xTaskNotifyGive(sendFromQueueTaskHandle_); return true
AppNotify ==
  /\ app_pc = "notify"
  /\ notified' = xTaskNotifyGive(notified)
  /\ app_pc' = "idle"
  /\ UNCHANGED <<fast_mode, trip, wifi, mx, bc, disc, tx, raw, nrf, connVars, timerVars, now, queue_send, queue_recv, lockVars,
                 metricVars, rxVars, tm_pc, wkVars, app_msg, app_ret, sends_made, logVars, obs>>

\* ------------------------------------------------------------------ send task
\* sendFromQueueLoop: ulTaskNotifyTake(pdTRUE, portMAX_DELAY) returns
WorkerWake ==
  /\ wk_pc = "wait" /\ notified
  /\ notified' = FALSE
  /\ wk_pc' = "drain"
  /\ UNCHANGED <<fast_mode, trip, wifi, mx, bc, disc, tx, raw, nrf, connVars, timerVars, now, queue_send, queue_recv, lockVars,
                 metricVars, rxVars, tm_pc, wk_msg, appVars, logVars, obs>>

\* sendFromQueueLoop: xQueueReceive(queue_send_, &msg, 0)
WorkerDequeue ==
  /\ wk_pc = "drain"
  /\ LET r == xQueueReceive(queue_send)
     IN /\ queue_send' = r.q
        /\ wk_msg' = IF r.ok THEN r.msg ELSE wk_msg
        /\ wk_pc' = IF r.ok THEN "send" ELSE "poll"
        /\ obs' = IF r.ok THEN [obs EXCEPT !.calls_at_deq = sends_made] ELSE obs
  /\ UNCHANGED <<fast_mode, trip, wifi, mx, bc, disc, tx, raw, nrf, connVars, timerVars, now, queue_recv, notified, lockVars,
                 metricVars, rxVars, tm_pc, appVars, logVars>>

\* ESP32_RC_ESPNOW::lowLevelSend: the send metrics after the retry loop has ended
\* with the driver's last answer
lowLevelSendMetrics(m, sent_ok) == IF sent_ok THEN addSuccess(m) ELSE addFailure(m)

\* sendFromQueueLoop: self->lowLevelSend(msg)
WorkerSend ==
  /\ wk_pc = "send"
  /\ \E sent_ok \in BOOLEAN : send_metrics' = lowLevelSendMetrics(send_metrics, sent_ok)
  /\ sent_log' = IF wk_msg.type = RCMSG_TYPE_DATA THEN Append(sent_log, wk_msg) ELSE sent_log
  /\ wk_pc' = "drain"
  /\ obs' = [obs EXCEPT !.sent_all = Append(@, wk_msg)]
  /\ UNCHANGED <<fast_mode, trip, wifi, mx, bc, disc, tx, raw, nrf, connVars, timerVars, now, queue_send, queue_recv, notified,
                 lockVars, recv_metrics, rxVars, tm_pc, wk_msg, appVars, cb_count, cb_last,
                 got_log>>

\* (mutant: the loop blocks again after the poll, whatever the poll returned)
WorkerAfterPoll_Block(n) == "wait"

\* the do-while condition of sendFromQueueLoop: drain again if a notification
\* arrived during the drain, else block
WorkerAfterPoll(n) == IF n THEN "drain" ELSE "wait"

\* sendFromQueueLoop: while (ulTaskNotifyTake(pdTRUE, 0) > 0)
WorkerPoll ==
  /\ wk_pc = "poll"
  /\ wk_pc' = WorkerAfterPoll(notified)
  /\ notified' = FALSE
  /\ UNCHANGED <<fast_mode, trip, wifi, mx, bc, disc, tx, raw, nrf, connVars, timerVars, now, queue_send, queue_recv, lockVars,
                 metricVars, rxVars, tm_pc, wk_msg, appVars, logVars, obs>>

\* ------------------------------------------------ a payload's way to the peer
\* everything but trip
engineVars == <<fast_mode, conn_state, peer_addr, last_heartbeat_rx_ms, timer_active,
                timer_due, now, queue_send, queue_recv, notified, lockVars,
                recv_metrics, send_metrics, rx_pc, rx_frame, rx_msg, rx_ok, tm_pc,
                wk_pc, wk_msg, app_pc, app_msg, app_ret, frames_seen, sends_made,
                sent_log, cb_count, cb_last, got_log, obs, wifi, mx, bc, disc,
                tx, raw, nrf>>

\* sender: sendData(P) up to the queue operation of sendMsg
TripSendData ==
  /\ trip.pc = "start"
  /\ \E P \in TripPayloads :
       LET r == SendMsgEnqueue(fast_mode, trip.sq, sendDataMessage(P))
       IN trip' = [trip EXCEPT !.P = P, !.sq = r.q,
                               !.pc = IF r.ok THEN "queued" ELSE "refused"]
  /\ UNCHANGED engineVars

\* sender: sendFromQueueLoop dequeues the message and lowLevelSend hands its
\* sizeof(RCMessage_t) bytes to the radio
TripLowLevelSend ==
  /\ trip.pc = "queued"
  /\ LET r == xQueueReceive(trip.sq)
     IN trip' = [trip EXCEPT !.sq = r.q, !.wire = MessageBytes(r.msg),
                             !.pc = IF r.ok THEN "air" ELSE "lost"]
  /\ UNCHANGED engineVars

\* peer: onDataRecvStatic parses the bytes, overwrites from_addr with the
\* sender's MAC, and onDataReceived puts the message on queue_recv_
TripReceive ==
  /\ trip.pc = "air"
  /\ LET m == [parseRawDataBytes(trip.wire) EXCEPT !.from = AddrBytes(MyAddr)]
         r == IF fast_mode THEN xQueueOverwrite(trip.pq, m)
                           ELSE xQueueSend(trip.pq, QUEUE_DEPTH_RECV, m)
     IN trip' = IF RoutedToQueue(m.type)
                  THEN [trip EXCEPT !.pq = r.q, !.pc = "delivered"]
                  ELSE [trip EXCEPT !.pc = "delivered"]
  /\ UNCHANGED engineVars

\* peer: recvData
TripRecvData ==
  /\ trip.pc = "delivered"
  /\ LET r == xQueueReceive(trip.pq)
         ok == r.ok /\ r.msg.type = RCMSG_TYPE_DATA
     IN trip' = [trip EXCEPT !.pq = r.q, !.ret = ok, !.pc = "done",
                             !.out = IF ok THEN BytesPayload(r.msg.payload) ELSE @]
  /\ UNCHANGED engineVars

\* ------------------------------------------------------------- WiFi backend
\* everything but conn_state, now and wifi
nonWifiVars == <<nrf, fast_mode, trip, mx, bc, disc, tx, raw, peer_addr, last_heartbeat_rx_ms, timerVars, queue_send,
                 queue_recv, notified, lockVars, metricVars, rxVars, tm_pc, wkVars,
                 appVars, logVars, obs>>

\* What one pass through the loop of connect() can take: delay(50) is the least,
\* the task resumes when the scheduler runs it again, and the WiFi driver calls
\* of the loop body block for as long as the driver needs. The passes tried
\* take half a second, the discovery timeout, or 12 s.
WifiPassMs == {500, 3000, 12000}

\* ESP32_RC_WIFI::connect up to the loop: state, phase, startRawDiscovery
WifiConnect ==
  /\ wifi.pc = "idle"
  /\ wifi.connects < MaxWifiConnects
  /\ conn_state' = "CONNECTING"
  /\ wifi' = [wifi EXCEPT !.pc = "test", !.connects = @ + 1,
                          !.discovery_phase = "PHASE_RAW_DISCOVERY",
                          !.discovery_start_ms = now, !.last_frame_inject_ms = 0,
                          !.peer_discovered = FALSE, !.sniff = TRUE,
                          !.connection_start = now]
  /\ UNCHANGED <<now, nonWifiVars>>

\* the loop condition of connect()
WifiLoopTest ==
  /\ wifi.pc = "test"
  /\ wifi' = [wifi EXCEPT !.pc =
       IF conn_state = "CONNECTING" /\ (now - wifi.connection_start) < CONNECTION_TIMEOUT_MS
         THEN "body" ELSE "exit"]
  /\ UNCHANGED <<conn_state, now, nonWifiVars>>

\* performRawDiscovery: the members after the call, and its result
performRawDiscovery(w, t) ==
  LET inj == IF t - w.last_frame_inject_ms >= FRAME_INJECT_INTERVAL_MS
               THEN [w EXCEPT !.last_frame_inject_ms = t] ELSE w
  IN IF inj.peer_discovered
       THEN [w |-> [inj EXCEPT !.sniff = FALSE], done |-> TRUE]
     ELSE IF t - inj.discovery_start_ms >= RAW_DISCOVERY_TIMEOUT_MS
       THEN [w |-> [inj EXCEPT !.sniff = FALSE, !.peer_discovered = FALSE], done |-> TRUE]
     ELSE [w |-> inj, done |-> FALSE]

\* the switch in the loop of connect(); negotiateRoles always returns true, and
\* startContinuousHandshakeListening turns sniff mode on again
WifiLoopBody ==
  /\ wifi.pc = "body"
  /\ CASE wifi.discovery_phase = "PHASE_RAW_DISCOVERY" ->
            LET r == performRawDiscovery(wifi, now)
            IN /\ wifi' = [r.w EXCEPT !.pc = "delay", !.discovery_phase =
                              IF r.done THEN "PHASE_ROLE_NEGOTIATE" ELSE @]
               /\ UNCHANGED conn_state
       [] wifi.discovery_phase = "PHASE_ROLE_NEGOTIATE" ->
            /\ wifi' = [wifi EXCEPT !.pc = "delay", !.discovery_phase = "PHASE_CONNECTED",
                                    !.sniff = TRUE, !.last_frame_inject_ms = now]
            /\ conn_state' = "CONNECTED"
       [] OTHER ->
            /\ wifi' = [wifi EXCEPT !.pc = "delay"]
            /\ UNCHANGED conn_state
  /\ UNCHANGED <<now, nonWifiVars>>

\* delay(50) at the end of the loop body: the time one pass has taken
WifiDelay ==
  /\ wifi.pc = "delay"
  /\ \E d \in WifiPassMs : now' = now + d
  /\ wifi' = [wifi EXCEPT !.pc = "test"]
  /\ UNCHANGED <<conn_state, nonWifiVars>>

\* connect() after the loop
WifiLoopExit ==
  /\ wifi.pc = "exit"
  /\ conn_state' = IF conn_state # "CONNECTED" THEN "ERROR" ELSE conn_state
  /\ wifi' = [wifi EXCEPT !.pc = "idle"]
  /\ UNCHANGED <<now, nonWifiVars>>

\* sniffCallback, processReceivedFrame: a discovery frame of node a is heard;
\* the node's own frames are ignored
WifiSniff ==
  /\ wifi.sniff
  /\ \E a \in {MyAddr} \cup ConnPeers :
       wifi' = IF a = MyAddr THEN wifi
               ELSE [wifi EXCEPT !.peer_mac = a, !.peer_discovered = TRUE]
  /\ wifi' # wifi
  /\ UNCHANGED <<conn_state, now, nonWifiVars>>

\* ------------------------------------------------------------- specifications
\* the steps of the send task
Worker == WorkerWake \/ WorkerDequeue \/ WorkerSend \/ WorkerPoll

\* Connection and liveness: connect(), the clock, the heartbeat timer and the
\* receive callback on well-formed frames. The send task is left unscheduled here:
\* it writes none of conn_state_, peer_addr_ and last_heartbeat_rx_ms_, and the
\* timer's sendMsg never waits for it.
Next ==
  \/ Connect
  \/ AdvanceTime
  \/ TimerFire \/ TimerNotify \/ TimerCheck \/ TimerExpired
  \/ DeliverValid(MaxConnFrames, ConnPeers)
  \/ RxLock \/ RxState \/ RxStamp \/ RxRoute \/ RxEvict \/ RxRetry \/ RxReport

Spec == Init /\ [][Next]_vars

\* Inbound pipeline: frames of every kind against a concurrently receiving
\* application, before connect() has been called.
NextRecv ==
  \/ DeliverValid(MaxFrames, Peers)
  \/ DeliverMalformed(MaxFrames, Peers)
  \/ RxLock \/ RxState \/ RxStamp \/ RxRoute \/ RxEvict \/ RxRetry \/ RxReport
  \/ AppRecvMsg \/ AppRecvData

SpecRecv == Init /\ [][NextRecv]_vars

\* Outbound pipeline: sendData calls against the send task.
NextSend ==
  \/ AppSendData \/ AppNotify
  \/ WorkerWake \/ WorkerDequeue \/ WorkerSend \/ WorkerPoll

SpecSend == Init /\ [][NextSend]_vars

\* The send task and a caller inside sendMsg are scheduled again and again.
SpecSendFair == SpecSend /\ WF_vars(Worker) /\ WF_vars(AppNotify)

\* Outbound ordering: the application and the heartbeat timer both enqueue, the
\* send task drains. The clock of these runs stops before the heartbeat timeout
\* can expire, so checkHeartbeat never reaches its expiry branch here.
NextOrder ==
  \/ Connect
  \/ AdvanceTimeUpTo(MaxOrderSteps)
  \/ TimerFire \/ TimerNotify \/ TimerCheck
  \/ AppSendData \/ AppNotify
  \/ WorkerWake \/ WorkerDequeue \/ WorkerSend \/ WorkerPoll

SpecOrder == Init /\ [][NextOrder]_vars

\* Round trip of one payload from this node to its peer.
NextTrip == TripSendData \/ TripLowLevelSend \/ TripReceive \/ TripRecvData

SpecTrip == Init /\ [][NextTrip]_vars

\* The WiFi backend: connect() against the sniff callback.
NextWifi ==
  \/ WifiConnect \/ WifiLoopTest \/ WifiLoopBody \/ WifiDelay \/ WifiLoopExit
  \/ WifiSniff

SpecWifi == Init /\ [][NextWifi]_vars

\* Scenario A: connect() is called once, one HEARTBEAT arrives afterwards, and
\* the heartbeat timer runs.
ScenarioConnect == ~timer_active /\ Connect

ScenarioHeartbeat ==
  /\ timer_active /\ frames_seen = 0
  /\ \E a \in ConnPeers : RadioDeliver(Frame(1, SizeofMessage, RCMSG_TYPE_HEARTBEAT, a))

NextScenario ==
  \/ ScenarioConnect
  \/ AdvanceTime
  \/ TimerFire \/ TimerNotify \/ TimerCheck \/ TimerExpired
  \/ ScenarioHeartbeat
  \/ RxLock \/ RxState \/ RxStamp \/ RxRoute

SpecScenario == Init /\ [][NextScenario]_vars

\* Both queues under load: frames arrive while the application does not
\* receive, and the application sends against the send task.
NextQueues ==
  \/ DeliverValid(MaxFrames, ConnPeers)
  \/ RxLock \/ RxState \/ RxStamp \/ RxRoute \/ RxEvict \/ RxRetry \/ RxReport
  \/ AppSendData \/ AppNotify
  \/ WorkerWake \/ WorkerDequeue \/ WorkerSend \/ WorkerPoll

SpecQueues == Init /\ [][NextQueues]_vars

\* the receive path with recvData as the only consumer
NextRecvData ==
  \/ DeliverValid(MaxFrames, Peers)
  \/ DeliverMalformed(MaxFrames, Peers)
  \/ RxLock \/ RxState \/ RxStamp \/ RxRoute \/ RxEvict \/ RxRetry \/ RxReport
  \/ AppRecvData

SpecRecvData == Init /\ [][NextRecvData]_vars

\* connect(), the heartbeat timer and messages from two senders; the frames
\* delivered never outnumber the places of the inbound queue, so the steps for
\* a full queue are left out
NextPeers ==
  \/ Connect
  \/ AdvanceTimeUpTo(MaxPeerSteps)
  \/ TimerFire \/ TimerNotify \/ TimerCheck \/ TimerExpired
  \/ DeliverValid(MaxPeerFrames, Peers)
  \/ RxLock \/ RxState \/ RxStamp \/ RxRoute \/ RxReport

SpecPeers == Init /\ [][NextPeers]_vars

\* -------------------------------------------------------------------- NRF24
\* ESP32_RC_NRF24::setPeerAddr: the new value of peer_addr_ (no driver call)
NrfSetPeerAddr(cur, addr) == IF addr = NullMac THEN cur ELSE addr

\* ESP32_RC_NRF24::switchToBroadcastPipe / switchToPeerPipe
switchToBroadcastPipe(n) == [n EXCEPT !.pipeType = 0]
switchToPeerPipe(n) == [n EXCEPT !.pipeType = 1]

\* what entering onDataReceived(m) does to the observations
ObsOnDataReceived(m) ==
  [obs EXCEPT !.rx_call_ms = now, !.rx_connected = timer_active,
              !.hb_received = @ \/ (m.type = RCMSG_TYPE_HEARTBEAT),
              !.data_in = IF m.type # RCMSG_TYPE_HEARTBEAT THEN Append(@, m.payload) ELSE @,
              !.interleaved = @ \/ obs.app_recv, !.reconnect = FALSE]

\* receiveLoop: read a 32-byte payload from another node, parse it and switch on
\* its type: a heartbeat before the handshake goes to handleHandshakeMessage, a
\* heartbeat after it and data after it go to onDataReceived, data before it is
\* dropped
NrfReceive ==
  /\ rx_pc = "idle" /\ frames_seen < MaxNrfFrames
  /\ \E f \in ValidFrames(frames_seen + 1, ConnPeers) :
       LET m == parseRawData(f)
           pc == IF m.type = RCMSG_TYPE_HEARTBEAT
                   THEN IF ~nrf.handshake_completed THEN "handshake" ELSE "lock"
                   ELSE IF nrf.handshake_completed THEN "lock" ELSE "idle"
       IN /\ rx_frame' = f
          /\ rx_msg' = m
          /\ rx_pc' = pc
          /\ obs' = IF pc = "lock" THEN ObsOnDataReceived(m) ELSE obs
  /\ frames_seen' = frames_seen + 1
  /\ rx_ok' = FALSE
  /\ UNCHANGED <<fast_mode, trip, wifi, mx, bc, disc, tx, raw, nrf, connVars, timerVars, now, queue_send,
                 queue_recv, notified, lockVars, metricVars, tm_pc, wkVars, appVars, logVars>>

\* handleHandshakeMessage: setPeerAddr, handshake_completed_ = true,
\* switchToPeerPipe(); back in receiveLoop, onDataReceived is entered
NrfHandshake ==
  /\ rx_pc = "handshake"
  /\ peer_addr' = NrfSetPeerAddr(peer_addr, rx_msg.from)
  /\ nrf' = switchToPeerPipe([nrf EXCEPT !.handshake_completed = TRUE])
  /\ rx_pc' = "lock"
  /\ obs' = ObsOnDataReceived(rx_msg)
  /\ UNCHANGED <<fast_mode, trip, wifi, mx, bc, disc, tx, raw, conn_state, last_heartbeat_rx_ms, timerVars, now,
                 queue_send, queue_recv, notified, lockVars, metricVars, rx_frame, rx_msg,
                 rx_ok, frames_seen, tm_pc, wkVars, appVars, logVars>>

\* onDataReceived on the NRF24 backend: setPeerAddr is the backend's override
NrfRxState ==
  /\ rx_pc = "state"
  /\ IF conn_state # "CONNECTED"
       THEN /\ peer_addr' = NrfSetPeerAddr(peer_addr, rx_msg.from)
            /\ conn_state' = "CONNECTED"
       ELSE UNCHANGED <<peer_addr, conn_state>>
  /\ rx_pc' = "stamp"
  /\ UNCHANGED <<fast_mode, trip, wifi, mx, bc, disc, tx, raw, nrf, last_heartbeat_rx_ms, timerVars, now, queue_send,
                 queue_recv, notified, lockVars, metricVars, rx_frame, rx_msg, rx_ok,
                 frames_seen, tm_pc, wkVars, appVars, logVars, obs>>

\* ESP32_RC_NRF24::checkHeartbeat: the base checkHeartbeat, outer test
NrfTimerCheck ==
  /\ tm_pc = "check"
  /\ tm_pc' = IF HeartbeatExpired(now, last_heartbeat_rx_ms) THEN "expired" ELSE "nrf_test"
  /\ UNCHANGED <<fast_mode, trip, wifi, mx, bc, disc, tx, raw, nrf, connVars, timerVars, now, queue_send,
                 queue_recv, notified, lockVars, metricVars, rxVars, wkVars, appVars,
                 logVars, obs>>

\* the base checkHeartbeat, inner test and the write of conn_state_
NrfTimerExpired ==
  /\ tm_pc = "expired"
  /\ conn_state' = IF conn_state = "CONNECTED" THEN "DISCONNECTED" ELSE conn_state
  /\ tm_pc' = "nrf_test"
  /\ UNCHANGED <<fast_mode, trip, wifi, mx, bc, disc, tx, raw, nrf, peer_addr, last_heartbeat_rx_ms, timerVars, now,
                 queue_send, queue_recv, notified, lockVars, metricVars, rxVars, wkVars,
                 appVars, logVars, obs>>

\* ESP32_RC_NRF24::checkHeartbeat: if (conn_state_ == DISCONNECTED)
NrfTimerTest ==
  /\ tm_pc = "nrf_test"
  /\ IF conn_state = "DISCONNECTED"
       THEN tm_pc' = "nrf_reset" /\ obs' = obs
       ELSE tm_pc' = "idle" /\ obs' = ObsTickEnd
  /\ UNCHANGED <<fast_mode, trip, wifi, mx, bc, disc, tx, raw, nrf, connVars, timerVars, now, queue_send,
                 queue_recv, notified, lockVars, metricVars, rxVars, wkVars, appVars,
                 logVars>>

\* ESP32_RC_NRF24::checkHeartbeat: handshake_completed_ = false;
\* switchToBroadcastPipe()
NrfTimerReset ==
  /\ tm_pc = "nrf_reset"
  /\ nrf' = switchToBroadcastPipe([nrf EXCEPT !.handshake_completed = FALSE])
  /\ tm_pc' = "idle"
  /\ obs' = ObsTickEnd
  /\ UNCHANGED <<fast_mode, trip, wifi, mx, bc, disc, tx, raw, connVars, timerVars, now, queue_send,
                 queue_recv, notified, lockVars, metricVars, rxVars, wkVars, appVars,
                 logVars>>

\* the NRF24 backend: connect(), the heartbeat timer with the backend's
\* checkHeartbeat, and the receive task; the frames received never outnumber the
\* places of the inbound queue
NextNrf ==
  \/ Connect
  \/ AdvanceTimeUpTo(MaxNrfSteps)
  \/ TimerFire \/ TimerNotify
  \/ NrfTimerCheck \/ NrfTimerExpired \/ NrfTimerTest \/ NrfTimerReset
  \/ NrfReceive \/ NrfHandshake
  \/ RxLock \/ NrfRxState \/ RxStamp \/ RxRoute \/ RxReport

SpecNrf == Init /\ [][NextNrf]_vars

\* ------------------------------------------------------------------ metrics
\* The three backends that override lowLevelSend.
Backends == {"ESPNOW", "NRF24", "WIFI"}

\* Whether lowLevelSend of a backend reaches send_metrics_ for a message type:
\* ESP-NOW after every send, NRF24 for every type but HEARTBEAT, WiFi never.
lowLevelSendCounts(backend, type) ==
  CASE backend = "ESPNOW" -> TRUE
    [] backend = "NRF24" -> type # RCMSG_TYPE_HEARTBEAT
    [] backend = "WIFI" -> FALSE

\* send_metrics_ after lowLevelSend of a backend whose last attempt ended with sent_ok
backendSendMetrics(backend, m, type, sent_ok) ==
  IF lowLevelSendCounts(backend, type) THEN lowLevelSendMetrics(m, sent_ok) ELSE m

\* what a call of addSuccess or addFailure does to the record of metrics calls
MxAdd == [mx EXCEPT !.add_ms = now, !.adds = @ + 1]

nonMetricsVars == <<nrf, fast_mode, trip, wifi, bc, disc, tx, raw, connVars, timerVars, queue_send,
                    queue_recv, notified, lockVars, rxVars, tm_pc, wkVars, appVars,
                    logVars, obs>>

\* ESP32RemoteControl::enableGlobalMetrics(enable)
EnableGlobalMetrics(enable) ==
  /\ mx' = [mx EXCEPT !.rc_metrics_enabled = enable]
  /\ UNCHANGED <<now, metricVars, nonMetricsVars>>

enableGlobalMetrics == \E enable \in BOOLEAN : EnableGlobalMetrics(enable)

\* lowLevelSend of one backend for a message of one type, with the outcome of
\* its last attempt
MetricsLowLevelSend ==
  /\ mx.adds < MaxMetricsAdds
  /\ \E backend \in Backends, type \in {RCMSG_TYPE_DATA, RCMSG_TYPE_HEARTBEAT},
        sent_ok \in BOOLEAN :
        /\ send_metrics' = backendSendMetrics(backend, send_metrics, type, sent_ok)
        /\ mx' = [(IF lowLevelSendCounts(backend, type) THEN MxAdd ELSE mx)
                    EXCEPT !.send = [backend |-> backend, type |-> type, ok |-> sent_ok]]
  /\ UNCHANGED <<now, recv_metrics, nonMetricsVars>>

\* the tail of onDataReceived for a DATA message: recv_metrics_ after the queue
\* took it (ok) or did not
MetricsReceive ==
  /\ mx.adds < MaxMetricsAdds
  /\ \E ok \in BOOLEAN : recv_metrics' = ReportMetrics(recv_metrics, fast_mode, ok)
  /\ mx' = MxAdd
  /\ UNCHANGED <<now, send_metrics, nonMetricsVars>>

\* one second passes
MetricsTick ==
  /\ now < MaxMetricsTicks * 1000
  /\ now' = now + 1000
  /\ UNCHANGED <<mx, metricVars, nonMetricsVars>>

NextMetrics == enableGlobalMetrics \/ MetricsLowLevelSend \/ MetricsReceive \/ MetricsTick

SpecMetrics == Init /\ [][NextMetrics]_vars

\* ESP32RemoteControl::resetMetrics(): send_metrics_.reset(); recv_metrics_.reset()
resetMetrics ==
  /\ mx.resets < MaxMetricsResets
  /\ send_metrics' = reset(send_metrics, now)
  /\ recv_metrics' = reset(recv_metrics, now)
  /\ mx' = [mx EXCEPT !.resets = @ + 1]
  /\ UNCHANGED <<now, nonMetricsVars>>

\* the two Metrics_t objects under addSuccess, addFailure and reset, in any order
NextCounters == MetricsLowLevelSend \/ MetricsReceive \/ MetricsTick \/ resetMetrics

SpecCounters == Init /\ [][NextCounters]_vars

\* a step that is a reset of the metrics
ResetStep == mx'.resets # mx.resets

\* the counters of a Metrics_t
CountersSum(m) == m.total = m.successful + m.failed
NoCounterLess(m, n) ==
  n.successful >= m.successful /\ n.failed >= m.failed /\ n.total >= m.total

\* --------------------------------------------------------------- addresses
\* RCAddress_t::clear
RCAddressClear(a) == [a EXCEPT !.size = 0, !.data = [i \in 1..RC_MAX_ADDR_SIZE |-> 0]]

\* RCAddress_t::setAddress(addr, addr_size); addr is a non-null array
setAddress(a, addr, addr_size) ==
  IF addr_size > 0 /\ addr_size <= RC_MAX_ADDR_SIZE
    THEN [a EXCEPT !.size = addr_size,
                   !.data = [i \in 1..RC_MAX_ADDR_SIZE |->
                               IF i <= addr_size THEN addr[i] ELSE 0]]
    ELSE RCAddressClear(a)

\* RCAddress_t::isValid and RCAddress_t::isBroadcast
isValid(a) == a.size > 0 /\ a.size <= RC_MAX_ADDR_SIZE
isBroadcast(a) == isValid(a) /\ \A i \in 1..a.size : a.data[i] = 255

\* getAddressSize() of a backend
getAddressSize(backend) ==
  CASE backend = "ESPNOW" -> RC_ADDR_SIZE
    [] backend = "NRF24" -> 5
    [] backend = "WIFI" -> 4

\* the RC_ADDR_SIZE bytes createBroadcastAddress of a backend copies
BroadcastBytes(backend) ==
  CASE backend = "ESPNOW" -> <<255, 255, 255, 255, 255, 255>>
    [] backend = "NRF24" -> <<240, 240, 240, 240, 170, 0>>
    [] backend = "WIFI" -> <<255, 255, 255, 255, 0, 0>>

\* createBroadcastAddress(broadcast_addr): memcpy of RC_ADDR_SIZE bytes to the
\* start of the object, that is to data[0..5]; size is left as it was
createBroadcastAddress(backend, a) ==
  [a EXCEPT !.data = [i \in 1..RC_MAX_ADDR_SIZE |->
                        IF i <= RC_ADDR_SIZE THEN BroadcastBytes(backend)[i] ELSE @[i]]]

\* the address a backend hands out as its broadcast address, seen over that
\* backend's declared address size
DeclaredAddress(backend, a) == [a EXCEPT !.size = getAddressSize(backend)]

\* the bytes and sizes the application passes to setAddress
AddrBytes6 == [1..RC_ADDR_SIZE -> {0, 255}]
AddrSizes == (0..RC_ADDR_SIZE) \cup {RC_MAX_ADDR_SIZE + 1}

nonAddrVars == <<nrf, now, mx, disc, tx, raw, metricVars, fast_mode, trip, wifi, connVars, timerVars,
                 queue_send, queue_recv, notified, lockVars, rxVars, tm_pc, wkVars,
                 appVars, logVars, obs>>

AddrSet ==
  /\ \E addr \in AddrBytes6, addr_size \in AddrSizes :
        bc' = [setAddress(bc, addr, addr_size) EXCEPT !.made = "none"]
  /\ UNCHANGED nonAddrVars

AddrClear ==
  /\ bc' = [RCAddressClear(bc) EXCEPT !.made = "none"]
  /\ UNCHANGED nonAddrVars

AddrCreateBroadcast ==
  /\ \E backend \in Backends :
        bc' = [createBroadcastAddress(backend, bc) EXCEPT !.made = backend]
  /\ UNCHANGED nonAddrVars

NextAddr == AddrSet \/ AddrClear \/ AddrCreateBroadcast

SpecAddr == Init /\ [][NextAddr]_vars

\* --------------------------------------------------------------- discovery
nonDiscVars == <<nrf, fast_mode, trip, wifi, mx, bc, tx, raw, connVars, timerVars, now, queue_send,
                 queue_recv, notified, metricVars, rxVars, tm_pc, wkVars, appVars,
                 logVars, obs>>

\* ESP32RemoteControl::setOnDiscoveryHandler(cb) with a callback
SetOnDiscoveryHandler ==
  /\ ~disc.callback
  /\ disc' = [disc EXCEPT !.callback = TRUE]
  /\ UNCHANGED <<lockVars, nonDiscVars>>

\* a backend calls onPeerDiscovered(addr, info)
DiscCall ==
  /\ disc.pc = "idle" /\ disc.calls < MaxDiscoveries
  /\ \E addr \in Peers :
        disc' = [disc EXCEPT !.pc = "lock", !.addr = addr, !.calls = @ + 1,
                             !.taken = FALSE, !.cb_calls = 0]
  /\ UNCHANGED <<lockVars, nonDiscVars>>

\* onPeerDiscovered: xSemaphoreTakeRecursive(data_lock_, 5 ms); when the take
\* fails the call logs an error and returns
DiscLock ==
  /\ disc.pc = "lock"
  /\ LET r == xSemaphoreTakeRecursive(lock_holder, lock_count, "disc")
     IN /\ lock_holder' = r.holder
        /\ lock_count' = r.count
        /\ disc' = [disc EXCEPT !.pc = IF r.ok THEN "record" ELSE "idle", !.taken = r.ok]
  /\ UNCHANGED nonDiscVars

\* onPeerDiscovered: write discovery_result_, then xSemaphoreGiveRecursive(data_lock_)
DiscRecord ==
  /\ disc.pc = "record"
  /\ disc' = [disc EXCEPT !.pc = "callback",
                          !.result = [discovered |-> TRUE, peer_addr |-> disc.addr]]
  /\ LET r == xSemaphoreGiveRecursive(lock_holder, lock_count, "disc")
     IN lock_holder' = r.holder /\ lock_count' = r.count
  /\ UNCHANGED nonDiscVars

\* onPeerDiscovered: the callback, if one is registered, and return
DiscCallback ==
  /\ disc.pc = "callback"
  /\ disc' = IF disc.callback
               THEN [disc EXCEPT !.pc = "idle", !.cb_calls = @ + 1, !.cb_holder = lock_holder]
               ELSE [disc EXCEPT !.pc = "idle"]
  /\ UNCHANGED <<lockVars, nonDiscVars>>

\* the receive callback and the discovery of a peer, each in its own task; the
\* frames delivered never outnumber the places of the inbound queue, so the
\* steps for a full queue are left out
NextDiscovery ==
  \/ DeliverValid(MaxDiscFrames, ConnPeers) \/ AdvanceTimeUpTo(MaxDiscSteps)
  \/ RxLock \/ RxState \/ RxStamp \/ RxRoute \/ RxReport
  \/ SetOnDiscoveryHandler \/ DiscCall \/ DiscLock \/ DiscRecord \/ DiscCallback

SpecDiscovery == Init /\ [][NextDiscovery]_vars

\* ------------------------------------------------------------ lowLevelSend
nonTxVars == <<nrf, fast_mode, trip, wifi, mx, bc, disc, raw, connVars, timerVars, now, queue_send,
               queue_recv, notified, lockVars, recv_metrics, rxVars, tm_pc, wkVars,
               appVars, logVars, obs>>

\* (mutant: the loop runs one round more)
RetryLoopTest_OneMore(retry) == retry <= MAX_SEND_RETRIES + 1

\* the test of the retry loop: for (retry = 0; retry <= MAX_SEND_RETRIES; retry++)
RetryLoopTest(retry) == retry <= MAX_SEND_RETRIES

\* (mutant: every frame goes to the broadcast address)
TargetAddr_Broadcast(connected, peer) == BroadcastMac

\* ESP32_RC_ESPNOW::lowLevelSend: target_addr points to peer_addr_ if the state
\* was CONNECTED, else to the broadcast address; each esp_now_send reads through it
TargetAddr(connected, peer) == IF connected THEN peer ELSE BroadcastMac

\* lowLevelSend(msg) is entered: sendResult = ESP_FAIL / sendSuccess = false, the
\* target is chosen, the loop starts with retry = 0
TxStart ==
  /\ tx.pc = "idle" /\ tx.calls < MaxTxCalls
  /\ \E backend \in {"ESPNOW", "NRF24"}, type \in {RCMSG_TYPE_DATA, RCMSG_TYPE_HEARTBEAT} :
        tx' = [pc |-> "attempt", backend |-> backend, type |-> type, retry |-> 0,
               ok |-> FALSE, attempts |-> 0, connected |-> conn_state = "CONNECTED",
               targets |-> <<>>, calls |-> tx.calls + 1]
  /\ UNCHANGED <<send_metrics, nonTxVars>>

\* one round of the loop: esp_now_send / radio_.write with the driver's answer,
\* break on success, else the delay, retry++ and the loop test
TxAttempt ==
  /\ tx.pc = "attempt"
  /\ \E sent_ok \in BOOLEAN :
        tx' = [tx EXCEPT !.ok = sent_ok,
                         !.attempts = @ + 1,
                         !.targets = IF tx.backend = "ESPNOW"
                                       THEN Append(@, TargetAddr(tx.connected, peer_addr))
                                       ELSE @,
                         !.retry = IF sent_ok THEN @ ELSE @ + 1,
                         !.pc = IF sent_ok THEN "metrics"
                                ELSE IF RetryLoopTest(tx.retry + 1) THEN "attempt"
                                ELSE "metrics"]
  /\ UNCHANGED <<send_metrics, nonTxVars>>

\* after the loop: the send metrics, and return
TxMetrics ==
  /\ tx.pc = "metrics"
  /\ send_metrics' = backendSendMetrics(tx.backend, send_metrics, tx.type, tx.ok)
  /\ tx' = [tx EXCEPT !.pc = "idle"]
  /\ UNCHANGED nonTxVars

\* lowLevelSend while frames arrive and connect() is called; no clock, so the
\* timer that connect() starts never fires in these runs
NextTx ==
  \/ Connect
  \/ DeliverValid(MaxTxFrames, ConnPeers)
  \/ RxLock \/ RxState \/ RxStamp \/ RxRoute \/ RxReport
  \/ TxStart \/ TxAttempt \/ TxMetrics

SpecTx == Init /\ [][NextTx]_vars

\* ------------------------------------------------------------ parseRawData
\* The buffers handed to parseRawData: len bytes, the first the type, then six
\* equal address bytes, then equal payload bytes; one byte short of a message,
\* a message, one byte long, and the empty buffer.
RawBuffer(t, a, p, len) ==
  [i \in 1..len |-> IF i = 1 THEN t ELSE IF i <= 1 + RC_ADDR_SIZE THEN a ELSE p]

RawLens == {0, SizeofMessage - 1, SizeofMessage, SizeofMessage + 1}
RawTypes == {RCMSG_TYPE_DATA, RCMSG_TYPE_IP_DISCOVERY, 2, RCMSG_TYPE_HEARTBEAT, 255}

nonRawVars == <<nrf, now, mx, bc, disc, tx, metricVars, fast_mode, trip, wifi, connVars,
                timerVars, queue_send, queue_recv, notified, lockVars, rxVars, tm_pc,
                wkVars, appVars, logVars, obs>>

\* a backend's receive path calls parseRawData(data, len)
ParseCall ==
  /\ raw.calls < MaxParseCalls
  /\ \E backend \in Backends, null \in BOOLEAN, len \in RawLens, t \in RawTypes,
        a \in {0, 255}, p \in {0, 90} :
        LET data == IF null THEN <<>> ELSE RawBuffer(t, a, p, len)
        IN raw' = [backend |-> backend, null |-> null, data |-> data, len |-> len,
                   out |-> parseRawDataOf(backend, null, data, len),
                   calls |-> raw.calls + 1]
  /\ UNCHANGED nonRawVars

NextParse == ParseCall

SpecParse == Init /\ [][NextParse]_vars

\* ===================================================================== claims
\* A step of the timer callback is one that moves tm_pc; a step of the receive
\* callback is one that moves rx_pc.
TimerStep == tm_pc' # tm_pc
TickEnds == tm_pc # "idle" /\ tm_pc' = "idle"

\* C1: a new engine is Disconnected, connect() makes it Connecting, and once an
\* onDataReceived call made after connect() has returned, the state is Connected
\* at the end of the next timer tick that begins after that return.
C1_ConnectedByNextTick ==
  /\ conn_state = "DISCONNECTED"
  /\ [][Connect => conn_state' = "CONNECTING"]_vars
  /\ [][(TickEnds /\ obs.tick_armed) => conn_state' = "CONNECTED"]_vars

\* C2: with the timer running, a Connected engine is never left Connected once
\* the last onDataReceived call is more than timeout + one interval old (the
\* tick that follows the timeout has disconnected it); only checkHeartbeat's
\* expiry branch moves Connected to Disconnected; and no timer tick changes a
\* Disconnected state.
C2_TimeoutDisconnectsOnce ==
  /\ [](timer_active /\ conn_state = "CONNECTED" /\ tm_pc = "idle"
          => now - obs.rx_call_ms <= HEARTBEAT_TIMEOUT_MS + HEARTBEAT_INTERVAL_MS)
  /\ [][(conn_state = "CONNECTED" /\ conn_state' = "DISCONNECTED") => tm_pc = "expired"]_vars
  /\ [][(TimerStep /\ conn_state = "DISCONNECTED") => conn_state' = "DISCONNECTED"]_vars

\* C2 witness: the timeout has moved a connected engine to Disconnected
C2_Witness ==
  /\ timer_active /\ conn_state = "DISCONNECTED" /\ tm_pc = "idle" /\ rx_pc = "idle"
  /\ obs.rx_call_ms >= 0
  /\ now - obs.rx_call_ms > HEARTBEAT_TIMEOUT_MS

\* C3: a timer step changes the state only from Connected to Disconnected, and
\* only when the most recent onDataReceived call is more than the timeout old.
C3_DisconnectOnlyAfterTimeout ==
  [][(TimerStep /\ conn_state' # conn_state)
       => /\ conn_state = "CONNECTED" /\ conn_state' = "DISCONNECTED"
          /\ now - obs.rx_call_ms > HEARTBEAT_TIMEOUT_MS]_vars

RxStep == rx_pc' # rx_pc

\* C4: in reliable mode every non-heartbeat message passed to onDataReceived has
\* been put on the inbound queue when the call reaches its tail (ok == pdTRUE),
\* and a step of onDataReceived changes the queue only by appending its message
\* or by removing the oldest entry.
C4_NewestNeverDropped ==
  /\ []((rx_pc = "report" /\ ~fast_mode) => rx_ok)
  /\ [][(RxStep /\ ~fast_mode /\ queue_recv' # queue_recv)
          => \/ queue_recv' = Append(queue_recv, rx_msg)
             \/ (Len(queue_recv) > 0 /\ queue_recv' = Tail(queue_recv))]_vars

\* C5: the steps of the receive callback on a malformed frame (wrong length or
\* unknown type) change neither the connection state, the peer address, the
\* last-receipt time, the inbound queue, the receive metrics nor the callback count.
C5_MalformedDiscarded ==
  [][(RxStep /\ ~WellFormed(rx_frame'))
       => UNCHANGED <<conn_state, peer_addr, last_heartbeat_rx_ms, queue_recv,
                      recv_metrics, cb_count>>]_vars

\* C6: no HEARTBEAT message is in the inbound queue, among the messages handed
\* out by recvMsg/recvData, or the argument of the receive callback.
C6_HeartbeatNeverSurfaces ==
  /\ \A i \in 1..Len(queue_recv) : queue_recv[i].type # RCMSG_TYPE_HEARTBEAT
  /\ \A i \in 1..Len(got_log) : got_log[i].type # RCMSG_TYPE_HEARTBEAT
  /\ cb_count > 0 => cb_last.type # RCMSG_TYPE_HEARTBEAT

\* C6 witness: a heartbeat has been received, and data has reached the callback
\* and the application
C6_Witness == obs.hb_received /\ cb_count > 0 /\ Len(got_log) > 0

\* a sendData call is the step that counts it
SendCall == sends_made' # sends_made
InSendQueue(k) == \E i \in 1..Len(queue_send) : queue_send[i].payload = k
InSentLog(k) == \E i \in 1..Len(sent_log) : sent_log[i].payload = k

\* C7: in reliable mode the send task is never blocked on the wake signal with
\* nothing pending while the outbound queue holds a message (unless a caller is
\* between its enqueue and its notify); no message is handed to lowLevelSend
\* twice; and under fair scheduling every enqueued message is eventually handed
\* to lowLevelSend.
C7_NoLostWakeup ==
  /\ []((wk_pc = "wait" /\ ~notified /\ app_pc # "notify" /\ tm_pc # "notify")
          => queue_send = <<>>)
  /\ [](\A i, j \in 1..Len(sent_log) : i # j => sent_log[i] # sent_log[j])
  /\ \A k \in 1..MaxSends : (~fast_mode /\ InSendQueue(k)) ~> InSentLog(k)

\* C7 witness: reliable mode, every message of the run has been sent and the
\* send task is blocked again
C7_Witness ==
  ~fast_mode /\ Len(sent_log) = MaxSends /\ wk_pc = "wait" /\ ~notified

C9_FastSendOverwrites ==
  /\ [][(SendCall /\ fast_mode)
          => app_ret' /\ queue_send' = <<app_msg'>> /\ app_pc' = "notify"]_vars
  /\ []((fast_mode /\ sends_made > 0) => app_ret)

\* C9 witness: fast mode, a second sendData has replaced a message that was
\* still pending
C9_Witness ==
  /\ fast_mode /\ sends_made = 2 /\ obs.calls_at_deq = 0
  /\ queue_send = <<Message(RCMSG_TYPE_DATA, MyAddr, 2)>>

\* C10: in fast mode the DATA message the send task hands to lowLevelSend is
\* always that of the latest sendData call made before the dequeue; payloads of
\* earlier calls are never sent afterwards (payloads reach lowLevelSend in
\* strictly increasing order of their calls).
C10_OnlyLatestIsSent ==
  /\ (fast_mode /\ wk_pc = "send" /\ wk_msg.type = RCMSG_TYPE_DATA)
       => wk_msg.payload = obs.calls_at_deq
  /\ fast_mode => \A i, j \in 1..Len(sent_log) :
                    i < j => sent_log[i].payload < sent_log[j].payload

\* C10 witness: fast mode, all sendData calls of the run were made before the
\* first dequeue, and lowLevelSend got the last payload only
C10_Witness ==
  fast_mode /\ sent_log = <<Message(RCMSG_TYPE_DATA, MyAddr, MaxSends)>>

\* the payloads of a sequence of messages, and the last n entries of a sequence
Payloads(q) == [i \in 1..Len(q) |-> q[i].payload]
LastN(q, n) == IF Len(q) <= n THEN q ELSE SubSeq(q, Len(q) - n + 1, Len(q))

\* C11: in reliable mode, when the receive calls are made only after the
\* deliveries (none during or before an onDataReceived call), the payloads handed
\* out so far followed by those still queued are exactly the last
\* QUEUE_DEPTH_RECV payloads delivered, in arrival order.
C11_OverflowKeepsLastN ==
  (~fast_mode /\ rx_pc = "idle" /\ ~obs.interleaved)
    => Payloads(got_log) \o Payloads(queue_recv) = LastN(obs.data_in, QUEUE_DEPTH_RECV)

\* C11 witness: more messages than the queue holds were delivered, and the
\* receive calls that followed have handed out a full queue of them
C11_Witness ==
  /\ ~fast_mode /\ rx_pc = "idle" /\ ~obs.interleaved
  /\ Len(obs.data_in) > QUEUE_DEPTH_RECV
  /\ Len(got_log) = QUEUE_DEPTH_RECV

IsPrefix(a, b) == Len(a) <= Len(b) /\ a = SubSeq(b, 1, Len(a))

\* C12: in reliable mode the messages handed to lowLevelSend are, in order, the
\* first of the messages whose sendMsg succeeded, in the order of their enqueue,
\* whether the application or the heartbeat timer enqueued them.
C12_SendOrderIsEnqueueOrder ==
  ~fast_mode => IsPrefix(obs.sent_all, obs.enq)

\* C12 witness: reliable mode, a heartbeat was sent between two data messages
C12_Witness ==
  /\ ~fast_mode
  /\ \E i, j, k \in 1..Len(obs.sent_all) :
        /\ i < j /\ j < k
        /\ obs.sent_all[i].type = RCMSG_TYPE_DATA
        /\ obs.sent_all[j].type = RCMSG_TYPE_HEARTBEAT
        /\ obs.sent_all[k].type = RCMSG_TYPE_DATA

\* C13: in reliable mode a payload passed to sendData and carried through
\* lowLevelSend, the peer's parseRawData and onDataReceived is what the peer's
\* next recvData returns, with return value true and all 25 bytes equal.
C13_RoundTrip ==
  (~fast_mode /\ trip.pc = "done")
    => /\ trip.ret
       /\ trip.out = trip.P
       /\ PayloadBytes(trip.out) = PayloadBytes(trip.P)

\* C13 witness: reliable mode, a payload with a NaN pattern and all flag bits
\* set has made the round trip
C13_Witness ==
  /\ ~fast_mode /\ trip.pc = "done"
  /\ trip.P.value1 = Float(32704, 1) /\ trip.P.flags = 255 /\ trip.P.id1 = 255

\* the step of onDataReceived that tests and writes conn_state_
RxStateStep == rx_pc = "state" /\ rx_pc' = "stamp"

C15_ErrorOnlyFromInitAndTerminal ==
  /\ [][conn_state' = "ERROR" => conn_state = "ERROR"]_vars
  /\ [][conn_state = "ERROR" => conn_state' = "ERROR"]_vars

\* C16: after a heartbeat timeout has moved the state to Disconnected (the only
\* way to be Disconnected with the timer running), the next message received
\* moves the state to Connected and its sender becomes the peer.
C16_SelfHealing ==
  [][(RxStateStep /\ conn_state = "DISCONNECTED" /\ timer_active)
       => conn_state' = "CONNECTED" /\ peer_addr' = rx_msg.from]_vars

\* the step in which a call of onDataReceived returns
RxReturns == rx_pc # "idle" /\ rx_pc' = "idle"

\* C17: a call of onDataReceived with a non-heartbeat message counts exactly
\* once when it returns (a success and one callback if the message was
\* enqueued, else one failure and no callback), and no other step of the call,
\* nor any step of a call with a heartbeat, changes a receive counter.
C17_OneCountPerMessage ==
  /\ [][(RxReturns /\ RoutedToQueue(rx_msg.type))
          => IF rx_ok
               THEN recv_metrics' = addSuccess(recv_metrics) /\ cb_count' = cb_count + 1
               ELSE recv_metrics' = addFailure(recv_metrics) /\ cb_count' = cb_count]_vars
  /\ [][(RxStep /\ ~(RxReturns /\ RoutedToQueue(rx_msg.type)))
          => recv_metrics' = recv_metrics /\ cb_count' = cb_count]_vars

\* C18: whenever onDataReceived moves the state to Connected, the stored peer
\* address is then the sender address of its message.
C18_PeerIsSender ==
  [][(RxStateStep /\ conn_state # "CONNECTED" /\ conn_state' = "CONNECTED")
       => peer_addr' = rx_msg.from]_vars

\* C19: in every state in which the connection state is Disconnected the
\* stored peer address is all zero.
C19_DisconnectedHasNoPeer == conn_state = "DISCONNECTED" => peer_addr = NullMac

\* C20: a connect() call that finds the state Connecting and the heartbeat
\* timer active (as a first call leaves them) changes nothing: the state stays
\* Connecting, the one timer stays active with its expiry unchanged, and no
\* other member changes.
C20_ConnectIdempotent ==
  [][(conn_state = "CONNECTING" /\ timer_active /\ Connect)
       => /\ conn_state' = "CONNECTING"
          /\ timer_active' /\ timer_due' = timer_due
          /\ UNCHANGED <<peer_addr, last_heartbeat_rx_ms, queue_send, queue_recv, notified,
                         lockVars, metricVars>>]_vars

\* C20 witness: connect() has been called again, some time into the timer's
\* period, and the state is as the first call left it
C20_Witness ==
  /\ obs.reconnect /\ conn_state = "CONNECTING" /\ timer_active
  /\ now < timer_due /\ timer_due < now + HEARTBEAT_INTERVAL_MS

\* C21: after connect() and a single inbound heartbeat at time t, the state is
\* Connected at the end of the first timer tick that begins after the
\* heartbeat was handled, and it is Disconnected once a tick that began later
\* than t + timeout has run (the last tick began at timer_due - interval).
C21_ScenarioA ==
  /\ [][(TickEnds /\ obs.tick_armed) => conn_state' = "CONNECTED"]_vars
  /\ []((frames_seen = 1 /\ rx_pc = "idle" /\ tm_pc = "idle"
           /\ timer_due - HEARTBEAT_INTERVAL_MS > obs.rx_call_ms + HEARTBEAT_TIMEOUT_MS)
          => conn_state = "DISCONNECTED")

\* what xQueueCreate was given: 1 in fast mode, the configured depth otherwise
QueueLength(fast, depth) == IF fast THEN 1 ELSE depth

C23_WritesUnderLock ==
  [][(conn_state' # conn_state \/ last_heartbeat_rx_ms' # last_heartbeat_rx_ms
        \/ peer_addr' # peer_addr)
       => (RxStep /\ lock_holder = "rx")]_vars

\* C24: while the switch written by enableGlobalMetrics is off, a step that
\* calls addSuccess or addFailure leaves every counter of the send and the
\* receive metrics unchanged.
C24_SwitchOffFreezesCounters ==
  [][(~mx.rc_metrics_enabled /\ mx'.adds # mx.adds) => UNCHANGED metricVars]_vars

\* C25: every lowLevelSend whose transmission failed in the end, of any backend
\* and for any message type, adds exactly one to the failed count of the send
\* metrics.
C25_FailedSendCounted ==
  [][(MetricsLowLevelSend /\ ~mx'.send.ok)
       => send_metrics'.failed = send_metrics.failed + 1]_vars

\* The length of the trailing window the throughput estimate is meant to cover:
\* 50 slots of 100 ms.
TrailingWindowMs == 50 * 100

\* C27: when no addSuccess or addFailure was called for a full window length,
\* the throughput estimate of the send metrics and of the receive metrics is 0,
\* whatever was recorded before.
C27_IdleWindowRateZero ==
  (mx.add_ms >= 0 /\ now - mx.add_ms >= TrailingWindowMs)
    => /\ getTransactionRate(send_metrics, now) = 0
       /\ getTransactionRate(recv_metrics, now) = 0

\* C26: the address written by createBroadcastAddress of a backend is a
\* broadcast address over that backend's declared address size: each of its
\* first getAddressSize() bytes is 0xFF.
C26_BroadcastSelfConsistent ==
  bc.made # "none" => isBroadcast(DeclaredAddress(bc.made, bc))

\* C29: a recvData call returns true exactly when the inbound queue holds a
\* message and the message it takes from the head has type DATA; it then hands
\* out that message's payload.  When the queue is empty or the message is not
\* DATA it returns false and hands out nothing.
C29_RecvDataFiltersData ==
  [][AppRecvData
       => LET taken == Len(queue_recv) > 0
              m == Head(queue_recv)
          IN /\ app_ret' = (taken /\ m.type = RCMSG_TYPE_DATA)
             /\ taken => queue_recv' = Tail(queue_recv)
             /\ IF app_ret'
                  THEN got_log' = Append(got_log, m) /\ app_msg'.payload = m.payload
                  ELSE got_log' = got_log]_vars

\* C29 witness: a recvData call has returned false on the empty queue after
\* earlier calls handed out the DATA payloads that were delivered
C29_Witness ==
  /\ obs.app_recv /\ ~app_ret /\ queue_recv = <<>> /\ rx_pc = "idle"
  /\ Len(got_log) >= 2
  /\ Payloads(got_log) = LastN(obs.data_in, Len(got_log))

\* a step of onPeerDiscovered, and its return
DiscStep == disc.pc # "idle" /\ disc'.pc # disc.pc
DiscReturns == disc.pc # "idle" /\ disc'.pc = "idle"

\* C28: a call onPeerDiscovered(addr) has, when it returns, recorded
\* {discovered = true, peer = addr}, and invoked the registered callback exactly
\* once at a moment when its task no longer held the data lock; the record is
\* written only while that task holds the lock; and no step of the call changes
\* the connection state, the peer address or either queue.
C28_DiscoveryRecordedThenCallback ==
  /\ [][DiscReturns
          => /\ disc'.result = [discovered |-> TRUE, peer_addr |-> disc.addr]
             /\ disc.callback => (disc'.cb_calls = 1 /\ disc'.cb_holder # "disc")]_vars
  /\ [][disc'.result # disc.result => lock_holder = "disc"]_vars
  /\ [][DiscStep => UNCHANGED <<conn_state, peer_addr, queue_send, queue_recv>>]_vars

\* C30: when an onDataReceived call returns, the last-receipt time is the time
\* of that call, for HEARTBEAT and DATA messages alike and whoever held the data
\* lock when the call was made.
C30_EveryCallStampsTime ==
  [][RxReturns => last_heartbeat_rx_ms' = obs.rx_call_ms]_vars

\* C31: whenever no call of onDataReceived and no call of onPeerDiscovered is in
\* progress, nobody holds the data lock, so a later call can take it.
C31_LockFreeBetweenCalls ==
  (rx_pc = "idle" /\ disc.pc = "idle") => lock_holder = "none"

\* the DATA message of the most recent sendData call
LastDataMsg == Message(RCMSG_TYPE_DATA, MyAddr, sends_made)

\* the outbound path is at rest: the slot is drained, the send task blocks with
\* no notification pending, and neither sendMsg caller is inside a call
SendIdle ==
  queue_send = <<>> /\ wk_pc = "wait" /\ ~notified /\ app_pc = "idle" /\ tm_pc = "idle"

\* a heartbeat was submitted after the most recent sendData call
HeartbeatAfterLastData ==
  \E i \in 1..Len(obs.enq) :
    /\ obs.enq[i].type = RCMSG_TYPE_HEARTBEAT
    /\ \A j \in i..Len(obs.enq) : obs.enq[j] # LastDataMsg

\* the step of a timer tick that submits the heartbeat
TickSubmits == tm_pc = "idle" /\ tm_pc' # "idle"

C33_ConnectedHasTimer == conn_state = "CONNECTED" => timer_active

C35_BoundedRetries ==
  /\ [](tx.attempts <= MAX_SEND_RETRIES + 1)
  /\ [](tx.pc = "attempt" => (~tx.ok /\ tx.attempts <= MAX_SEND_RETRIES))
  /\ [][(tx'.attempts = tx.attempts + 1 /\ tx'.ok) => tx'.pc = "metrics"]_vars

\* C35 witness: a call has returned after MAX_SEND_RETRIES + 1 failed attempts
C35_Witness ==
  tx.pc = "idle" /\ tx.calls > 0 /\ ~tx.ok /\ tx.attempts = MAX_SEND_RETRIES + 1

\* C36: every attempt of an ESP-NOW lowLevelSend that found the state Connected
\* at its start goes to the stored peer address, and every attempt of a call
\* that found any other state goes to the broadcast address.
C36_TargetByState ==
  [][(tx.backend = "ESPNOW" /\ tx'.attempts = tx.attempts + 1)
       => /\ Len(tx'.targets) = tx'.attempts
          /\ tx'.targets[tx'.attempts] = IF tx.connected THEN peer_addr ELSE BroadcastMac]_vars

\* C36 witness: after connect() and a first message, the last call allowed has
\* found the state Connected and made more than one attempt, the first of them
\* to the peer
C36_Witness ==
  /\ tx.backend = "ESPNOW" /\ tx.calls = MaxTxCalls /\ tx.connected
  /\ tx.attempts > 1 /\ tx.targets[1] \in Peers
  /\ conn_state = "CONNECTED" /\ timer_active

\* C37: parseRawData returns the 32 input bytes unchanged as a message when the
\* pointer is not null, len is 32 and the type byte is DATA or HEARTBEAT (or
\* the IP-discovery type on the WiFi backend); in every other case it returns
\* the message of 32 zero bytes.
C37_ParseAllOrNothing ==
  raw.calls > 0
    => LET accepted ==
             /\ ~raw.null /\ raw.len = 32
             /\ \/ raw.data[1] \in {RCMSG_TYPE_DATA, RCMSG_TYPE_HEARTBEAT}
                \/ raw.backend = "WIFI" /\ raw.data[1] = RCMSG_TYPE_IP_DISCOVERY
       IN MessageBytes(raw.out) = IF accepted THEN raw.data ELSE [i \in 1..32 |-> 0]

\* C37 witness: the second call was given 32 bytes with non-zero address and
\* payload bytes and an unknown type, and returned the zero message
C37_Witness ==
  /\ raw.calls = 2 /\ ~raw.null /\ raw.len = 32 /\ raw.data[1] = 255
  /\ raw.data[2] = 255 /\ raw.data[32] = 90
  /\ raw.out = ZeroMsgBytes

C39_ConnectedMeansHandshake ==
  conn_state = "CONNECTED" => (nrf.handshake_completed /\ nrf.pipeType = 1)

\* C40: in both Metrics_t objects total = successful + failed at all times, and
\* a step that is not a reset lowers none of the three counters.
C40_CountersConsistent ==
  /\ [](CountersSum(send_metrics) /\ CountersSum(recv_metrics))
  /\ [][~ResetStep => (/\ NoCounterLess(send_metrics, send_metrics')
                       /\ NoCounterLess(recv_metrics, recv_metrics'))]_vars

\* C40 witness: counts made before a reset are gone, and after the reset a
\* success has been counted on the send side and a failure on the receive side
C40_Witness ==
  /\ mx.resets >= 1
  /\ send_metrics.successful >= 1 /\ recv_metrics.failed >= 1
  /\ send_metrics.total + recv_metrics.total < mx.adds

====
